---------------------------- MODULE Spec2Model ----------------------------
(***************************************************************************)
(* Marker-anchored AR pipeline: the frame loop of src/script.js (the       *)
(* second module of that file, "main.js"), the pose solver of              *)
(* src/unnamed/part_003 (pose.js), the visual odometry core of             *)
(* src/unnamed/part_002 (slam_core.js) and ARRenderer.setAnchorPose of     *)
(* src/js/renderer.js.                                                     *)
(*                                                                         *)
(* Numbers.  JavaScript doubles are modelled in fixed point:               *)
(*   positions and PnP translations   millimetres                          *)
(*   odometry translation direction   thousandths (a unit vector has       *)
(*                                    norm 1000)                           *)
(*   slamMetricScale                  thousandths of a metre per unit of   *)
(*                                    odometry translation                 *)
(*   Euler angles                     milliradians                         *)
(* Rotation matrices are row-major 9-tuples; index i of the code is index  *)
(* i+1 here.  Products are rounded down to the unit, the way a double      *)
(* rounds to its last place.                                               *)
(***************************************************************************)
EXTENDS Integers, Sequences, FiniteSets, TLC

VARIABLES
    running,                \* script.js:95
    startPc,                \* where the Start click handler stands (script.js:235-390)
    cvInstance,             \* script.js:154   (TRUE: an OpenCV instance is held)
    slam,                   \* script.js:96    (Null or the SlamCore's fields)
    markerTracker,          \* script.js:98    ("null", "noTemplate", "ready")
    frameIndex,             \* script.js:102
    markerTracking,         \* script.js:109
    markerPrevGray,         \* script.js:110   (Null or the gray Mat held)
    markerPrevPts,          \* script.js:111   (Null or the 4x1 Mat held)
    lastStableMarkerPose,   \* script.js:112
    slamMetricScale,        \* script.js:115
    lastMarkerPoseForScale, \* script.js:116
    prevGray,               \* script.js:156   (TRUE: a Mat is held)
    prevPoints,             \* script.js:157   (rows of the Mat, 0 for null)
    cameraMatrix,           \* part_003:2      (TRUE: intrinsics are set)
    worldOrigin,            \* part_003:5
    rawPose,                \* part_003:6
    lastPose,               \* part_003:7
    anchor,                 \* renderer.js:233 (the THREE.Group's visible/position/rotation)
    loopDue,                \* a call of loop() is due (script.js:366, 872)
    fr,                     \* the locals of the last handler run and the calls it made
    probe                   \* the arguments and result of a helper applied on its own

vars == << running, startPc, cvInstance, slam, markerTracker, frameIndex, markerTracking,
           markerPrevGray, markerPrevPts, lastStableMarkerPose, slamMetricScale,
           lastMarkerPoseForScale, prevGray, prevPoints, cameraMatrix, worldOrigin,
           rawPose, lastPose, anchor, loopDue, fr, probe >>

(***************************************************************************)
(* Bounds of the model.                                                    *)
(***************************************************************************)
\* loop() iterations explored; frameIndex itself is unbounded in the code.
MaxFrames == 3

(***************************************************************************)
(* Program constants, in the model's units.                                *)
(***************************************************************************)
\* 0.25 m, the jump threshold, in millimetres.
JumpLimit == 250
\* 1e-4 m, the marker displacement floor, in tenths of a millimetre.
MarkerFloor == 1
\* 1e-6, the odometry norm floor, in millionths.
SlamFloor == 1
\* SMOOTHING = 0.85, in hundredths.
SMOOTHING == 85
\* The EMA weight 0.9 of the previous scale, in tenths.
ScaleKeep == 9
\* goodPrev.length < 16: goodPrev holds two floats per tracked point.
MinGoodFloats == 16
MAX_FEATURES == 300
MIN_FEATURES == 80

(***************************************************************************)
(* null / undefined.                                                       *)
(***************************************************************************)
Null == [null |-> TRUE]
IsNull(x) == "null" \in DOMAIN x

Identity3 == << 1, 0, 0,   0, 1, 0,   0, 0, 1 >>
\* A quarter turn about the optical axis.
RotZ90 == << 0, -1, 0,   1, 0, 0,   0, 0, 1 >>

Abs(n) == IF n < 0 THEN -n ELSE n

RECURSIVE SqrtSearch(_, _, _)
SqrtSearch(n, lo, hi) ==
    IF lo >= hi THEN lo
    ELSE LET mid == (lo + hi + 1) \div 2
         IN  IF mid * mid <= n THEN SqrtSearch(n, mid, hi)
                               ELSE SqrtSearch(n, lo, mid - 1)

\* Math.sqrt, rounded down to the unit of its argument's root.
Sqrt(n) == SqrtSearch(n, 0, IF n < 46340 THEN n ELSE 46340)

SumSq(dx, dy, dz) == dx * dx + dy * dy + dz * dz

(***************************************************************************)
(* script.js: the helpers of the fusion step.                              *)
(***************************************************************************)
mat3MulVec3(r, v) ==
    << r[1] * v[1] + r[2] * v[2] + r[3] * v[3],
       r[4] * v[1] + r[5] * v[2] + r[6] * v[3],
       r[7] * v[1] + r[8] * v[2] + r[9] * v[3] >>

mat3MulMat3(a, b) ==
    << a[1] * b[1] + a[2] * b[4] + a[3] * b[7],
       a[1] * b[2] + a[2] * b[5] + a[3] * b[8],
       a[1] * b[3] + a[2] * b[6] + a[3] * b[9],

       a[4] * b[1] + a[5] * b[4] + a[6] * b[7],
       a[4] * b[2] + a[5] * b[5] + a[6] * b[8],
       a[4] * b[3] + a[5] * b[6] + a[6] * b[9],

       a[7] * b[1] + a[8] * b[4] + a[9] * b[7],
       a[7] * b[2] + a[8] * b[5] + a[9] * b[8],
       a[7] * b[3] + a[8] * b[6] + a[9] * b[9] >>

\* Math.sqrt(dx*dx + dy*dy + dz*dz) > limit, decided on the squares (sqrt is
\* monotone).  A component that alone exceeds the limit decides it before
\* the squares are formed, which keeps the sum inside TLC's integers.
DistExceeds(dx, dy, dz, limit) ==
    IF Abs(dx) > limit \/ Abs(dy) > limit \/ Abs(dz) > limit
    THEN TRUE
    ELSE SumSq(dx, dy, dz) > limit * limit

DistExceedsOrEqual(dx, dy, dz, limit) ==
    IF Abs(dx) > limit \/ Abs(dy) > limit \/ Abs(dz) > limit
    THEN TRUE
    ELSE SumSq(dx, dy, dz) >= limit * limit

poseJumpTooLargeInclusive(prev, next) ==
    IF IsNull(prev) \/ IsNull(next) THEN FALSE
    ELSE DistExceedsOrEqual(next.position[1] - prev.position[1],
                            next.position[2] - prev.position[2],
                            next.position[3] - prev.position[3], JumpLimit)

poseJumpTooLarge(prev, next) ==
    IF IsNull(prev) \/ IsNull(next) THEN FALSE
    ELSE DistExceeds(next.position[1] - prev.position[1],
                     next.position[2] - prev.position[2],
                     next.position[3] - prev.position[3], JumpLimit)

\* script.js:633-639: the two norms of the scale learning step.
MarkerDisplacement(pose, ref) ==
    Sqrt(SumSq(pose.position[1] - ref.position[1],
               pose.position[2] - ref.position[2],
               pose.position[3] - ref.position[3]))

SlamNorm(dt) == Sqrt(SumSq(dt[1], dt[2], dt[3]))

\* script.js:640: dMarker > 1e-4 && dSlam > 1e-6.
ScaleFires(dMarker, dSlam) ==
    10 * dMarker > MarkerFloor /\ 1000 * dSlam > SlamFloor

ScaleEmaNoAverage(scale, dMarker, dSlam) == (1000 * dMarker) \div dSlam

\* script.js:641-643: s = dMarker / dSlam and the exponential moving average.
\* dMarker is in millimetres and dSlam in thousandths, so s in thousandths
\* is 1000 * dMarker / dSlam.
ScaleEma(scale, dMarker, dSlam) ==
    LET s == (1000 * dMarker) \div dSlam
    IN  IF scale > 0 THEN (ScaleKeep * scale + (10 - ScaleKeep) * s) \div 10
                     ELSE s

PropagatePoseNoFlip(last, delta, metricScale) ==
    LET scale == IF metricScale > 0 THEN metricScale ELSE 0
        rotated == mat3MulVec3(delta.R, last.position)
    IN  [last EXCEPT !.position = << rotated[1] + (delta.t[1] * scale) \div 1000,
                                     rotated[2] + (delta.t[2] * scale) \div 1000,
                                     rotated[3] + (delta.t[3] * scale) \div 1000 >>,
                     !.rotationMatrix = mat3MulMat3(delta.R, last.rotationMatrix)]

\* script.js:663-688: the last stable pose moved by the odometry delta.
PropagatePose(last, delta, metricScale) ==
    LET dR == delta.R
        dt == delta.t
        dtPose == << dt[1], -dt[2], dt[3] >>
        scale == IF metricScale > 0 THEN metricScale ELSE 0
        dtScaled == << (dtPose[1] * scale) \div 1000,
                       (dtPose[2] * scale) \div 1000,
                       (dtPose[3] * scale) \div 1000 >>
        rotated == mat3MulVec3(dR, last.position)
        newPos == << rotated[1] + dtScaled[1],
                     rotated[2] + dtScaled[2],
                     rotated[3] + dtScaled[3] >>
    IN  IF "rotationMatrix" \in DOMAIN last
        THEN [last EXCEPT !.position = newPos,
                          !.rotationMatrix = mat3MulMat3(dR, last.rotationMatrix)]
        ELSE [last EXCEPT !.position = newPos]

(***************************************************************************)
(* pose.js (src/unnamed/part_003).                                         *)
(***************************************************************************)
smoothValueSwapped(prev, next) ==
    (prev * (100 - SMOOTHING) + next * SMOOTHING) \div 100

smoothValue(prev, next) ==
    (prev * SMOOTHING + next * (100 - SMOOTHING)) \div 100

normalizeTranslation(tvec) == << tvec[1], -tvec[2], tvec[3] >>

\* Math.asin and Math.atan2 on the entries the model's rotations have
\* (-1, 0, 1), in milliradians.
Asin(v) == CASE v = 0 -> 0 [] v = 1 -> 1571 [] v = -1 -> -1571

Atan2(y, x) ==
    CASE y = 0  /\ x >= 0 -> 0
      [] y = 0  /\ x < 0  -> 3142
      [] y > 0  /\ x = 0  -> 1571
      [] y < 0  /\ x = 0  -> -1571
      [] y > 0  /\ x > 0  -> 785
      [] y > 0  /\ x < 0  -> 2356
      [] y < 0  /\ x > 0  -> -785
      [] y < 0  /\ x < 0  -> -2356

\* << yaw, pitch, roll >>
rotationMatrixToEuler(m) ==
    LET pitch == Asin(-m[7])
        roll  == Atan2(m[8], m[9])
        yaw   == Atan2(m[4], m[1])
    IN  << yaw, pitch, roll >>

applyWorldZero(pose, origin) ==
    IF IsNull(origin) THEN pose
    ELSE [position |-> << pose.position[1] - origin.position[1],
                          pose.position[2] - origin.position[2],
                          pose.position[3] - origin.position[3] >>,
          rotation |-> << pose.rotation[1] - origin.rotation[1],
                          pose.rotation[2] - origin.rotation[2],
                          pose.rotation[3] - origin.rotation[3] >>]

\* The pose module's state as one record, for estimatePose to map.
PoseModule == [cameraMatrix |-> cameraMatrix, worldOrigin |-> worldOrigin,
               rawPose |-> rawPose, lastPose |-> lastPose]

\* The returned pose without the rotation matrix of the solve.
estimatePoseNoMatrix(m, pnp) ==
    IF ~m.cameraMatrix THEN [m |-> m, pose |-> Null]
    ELSE IF IsNull(pnp) THEN [m |-> m, pose |-> Null]
    ELSE
      LET t == normalizeTranslation(pnp.tvec)
          r == rotationMatrixToEuler(pnp.R)
          raw == [position |-> t, rotation |-> r, rotationMatrix |-> pnp.R]
          poseState ==
              IF IsNull(m.lastPose) THEN raw
              ELSE [position |->
                        << smoothValue(m.lastPose.position[1], t[1]),
                           smoothValue(m.lastPose.position[2], t[2]),
                           smoothValue(m.lastPose.position[3], t[3]) >>,
                    rotation |->
                        << smoothValue(m.lastPose.rotation[1], r[1]),
                           smoothValue(m.lastPose.rotation[2], r[2]),
                           smoothValue(m.lastPose.rotation[3], r[3]) >>,
                    rotationMatrix |-> pnp.R]
          worldPose == applyWorldZero(poseState, m.worldOrigin)
          returned == [position |-> worldPose.position,
                       rotation |-> worldPose.rotation]
      IN  [m |-> [m EXCEPT !.rawPose = raw, !.lastPose = poseState],
           pose |-> returned]

\* estimatePose(imagePoints, objectPoints, cv).  pnp is what cv.solvePnP and
\* cv.Rodrigues give for the image points: Null when solvePnP reports
\* failure, else [tvec, R].  The result is [m |-> the module's state after
\* the call, pose |-> the value returned].
estimatePose(m, pnp) ==
    IF ~m.cameraMatrix THEN [m |-> m, pose |-> Null]
    ELSE IF IsNull(pnp) THEN [m |-> m, pose |-> Null]
    ELSE
      LET t == normalizeTranslation(pnp.tvec)
          r == rotationMatrixToEuler(pnp.R)
          raw == [position |-> t, rotation |-> r, rotationMatrix |-> pnp.R]
          poseState ==
              IF IsNull(m.lastPose) THEN raw
              ELSE [position |->
                        << smoothValue(m.lastPose.position[1], t[1]),
                           smoothValue(m.lastPose.position[2], t[2]),
                           smoothValue(m.lastPose.position[3], t[3]) >>,
                    rotation |->
                        << smoothValue(m.lastPose.rotation[1], r[1]),
                           smoothValue(m.lastPose.rotation[2], r[2]),
                           smoothValue(m.lastPose.rotation[3], r[3]) >>,
                    rotationMatrix |-> pnp.R]
          worldPose == applyWorldZero(poseState, m.worldOrigin)
          returned == [position |-> worldPose.position,
                       rotation |-> worldPose.rotation,
                       rotationMatrix |-> poseState.rotationMatrix]
      IN  [m |-> [m EXCEPT !.rawPose = raw, !.lastPose = poseState],
           pose |-> returned]

setWorldOriginResetsBase(m) ==
    IF IsNull(m.rawPose) THEN m
    ELSE [m EXCEPT !.worldOrigin = [position |-> m.rawPose.position,
                                    rotation |-> m.rawPose.rotation],
                   !.lastPose = Null]

\* part_003:91-100: setWorldOrigin() copies position and rotation of
\* rawPose, the pose of the last solve before smoothing.
setWorldOrigin(m) ==
    IF IsNull(m.rawPose) THEN m
    ELSE [m EXCEPT !.worldOrigin = [position |-> m.rawPose.position,
                                    rotation |-> m.rawPose.rotation]]

(***************************************************************************)
(* renderer.js: ARRenderer.setAnchorPose.  The rotation kept is the matrix *)
(* handed to THREE.Quaternion.setFromRotationMatrix.                       *)
(***************************************************************************)
setAnchorPoseShowsNull(a, pose) ==
    IF IsNull(pose) THEN [a EXCEPT !.visible = TRUE]
    ELSE [visible  |-> TRUE,
          position |-> << pose.position[1], pose.position[2], -pose.position[3] >>,
          rotation |-> pose.rotationMatrix]

setAnchorPose(a, pose) ==
    IF IsNull(pose) \/ "position" \notin DOMAIN pose
                    \/ "rotationMatrix" \notin DOMAIN pose
    THEN [a EXCEPT !.visible = FALSE]
    ELSE LET r == pose.rotationMatrix
         IN  [visible  |-> TRUE,
              position |-> << pose.position[1], pose.position[2],
                              -pose.position[3] >>,
              rotation |-> <<  r[1], -r[2], -r[3],
                              -r[4],  r[5],  r[6],
                              -r[7],  r[8],  r[9] >>]

(***************************************************************************)
(* slam_core.js (src/unnamed/part_002).                                    *)
(***************************************************************************)
\* part_002:186: points with a homogeneous weight below this are dropped;
\* weights and homogeneous coordinates are held in units of 1e-9.
WeightFloor == 10
\* part_002:192: points with a coordinate beyond this are dropped.
CoordLimit == 100
\* part_002:244: goodFeaturesToTrack is asked for at most this many corners.
SlamMaxCorners == 300

\* part_002:3-19: the core as constructed.  pose.t is held in thousandths;
\* Mats of points are held as the frame they lie in, how they were found
\* and their rows.
SlamCoreNew ==
    [initialized |-> FALSE,
     pose |-> [R |-> Identity3, t |-> << 0, 0, 0 >>],
     mapPoints3D |-> << >>,
     prevGray |-> Null,
     prevPoints |-> Null]

\* part_002:41, 71, 203: this.currGray.clone() of the given frame.
CurrGrayClone(frame) == [frame |-> frame]

\* The detection returning no corners.
DetectedFeaturesEmpty(frame, rows) == [frame |-> frame, from |-> "detect", rows |-> 0]

\* part_002:240-255: _detectFeatures on the given frame.
DetectedFeatures(frame, rows) == [frame |-> frame, from |-> "detect", rows |-> rows]

\* part_002:83-88, 204: currMat, the surviving points in the current frame.
TrackedFeatures(frame, rows) == [frame |-> frame, from |-> "track", rows |-> rows]

\* The threshold read as a number of point pairs.
EnoughTracksCountsPairs(good) == good >= MinGoodFloats

\* part_002:54-70: goodPrev holds two floats for every surviving pair;
\* the solve runs unless goodPrev.length < 16.
EnoughTracks(good) == ~(2 * good < MinGoodFloats)

\* part_002:132: R.mul(this.pose.R), the per-element product of the Mats.
MatMul(a, b) == [k \in 1..9 |-> a[k] * b[k]]

\* part_002:229-238: _addTrans.
AddTrans(t1, t2) == << t1[1] + t2[1], t1[2] + t2[2], t1[3] + t2[3] >>

\* The filter keeping only points strictly inside the coordinate limit.
KeepPointStrict(p) ==
    /\ ~(Abs(p.w) < WeightFloor)
    /\ p.finite
    /\ Abs(p.x \div p.w) < CoordLimit
    /\ Abs(p.y \div p.w) < CoordLimit
    /\ Abs(p.z \div p.w) < CoordLimit

\* part_002:185-192: the test a triangulated homogeneous point passes.
\* p.finite: the quotients are finite numbers.
KeepPoint(p) ==
    /\ ~(Abs(p.w) < WeightFloor)
    /\ p.finite
    /\ ~(Abs(p.x \div p.w) > CoordLimit)
    /\ ~(Abs(p.y \div p.w) > CoordLimit)
    /\ ~(Abs(p.z \div p.w) > CoordLimit)

\* part_002:184-194: the point cloud made from the columns of points4D.
RECURSIVE Triangulated(_)
Triangulated(points4D) ==
    IF points4D = << >> THEN << >>
    ELSE LET p == Head(points4D)
         IN  (IF KeepPoint(p)
              THEN << [X |-> p.x \div p.w, Y |-> p.y \div p.w, Z |-> p.z \div p.w] >>
              ELSE << >>)
             \o Triangulated(Tail(points4D))

\* What the vision library does with one frame: `detected` corners found by
\* goodFeaturesToTrack, `good` point pairs surviving the optical flow, the
\* essential matrix estimation returning a matrix, nothing, or throwing,
\* recoverPose returning R and t or throwing, triangulatePoints returning
\* points4D or throwing.
SlamInput(good, essential, recover, motion, triangulate, points4D) ==
    [detected |-> SlamMaxCorners, good |-> good, essential |-> essential,
     recover |-> recover, motion |-> motion, triangulate |-> triangulate,
     points4D |-> points4D]

SlamInputs(motions) ==
    { SlamInput(7, "ok", "ok", Null, "ok", << >>) }
    \cup { SlamInput(8, e, "throws", Null, "ok", << >>) : e \in {"ok", "throws"} }
    \cup { SlamInput(8, "ok", "ok", mo, "ok", << >>) : mo \in motions }

\* The object processFrame returns (part_002:45, 73, 226).
SlamResult(full) ==
    IF full THEN [pose |-> TRUE, mapPoints |-> TRUE, mapPoints3D |-> TRUE]
            ELSE [pose |-> TRUE, mapPoints |-> TRUE]

\* part_002:206-221: the frame's solve gave nothing; keep the pose, clear
\* the cloud, go on from the current frame's tracked points.
SolveFailed(s, in, frame) ==
    [s EXCEPT !.mapPoints3D = << >>,
              !.prevGray = CurrGrayClone(frame),
              !.prevPoints = TrackedFeatures(frame, in.good)]

\* part_002:130-204: recoverPose returned R and t.
SolveDone(s, in, frame) ==
    [s EXCEPT !.pose = [R |-> MatMul(in.motion.R, s.pose.R),
                        t |-> AddTrans(s.pose.t, in.motion.t)],
              !.mapPoints3D = IF in.triangulate = "ok"
                              THEN Triangulated(in.points4D) ELSE << >>,
              !.prevGray = CurrGrayClone(frame),
              !.prevPoints = TrackedFeatures(frame, in.good)]

\* part_002:28-227: processFrame(imageData) on the frame numbered `frame`:
\* [s |-> the core after the call, threw, res |-> the returned object,
\* estimated |-> the essential matrix estimation was called, recovered |->
\* the (R, t) recoverPose produced in this call or Null].
processFrame(s, in, frame) ==
    IF ~s.initialized
    THEN [s |-> [s EXCEPT !.initialized = TRUE,
                          !.prevGray = CurrGrayClone(frame),
                          !.prevPoints = DetectedFeatures(frame, in.detected)],
          threw |-> FALSE, res |-> SlamResult(FALSE), estimated |-> FALSE,
          recovered |-> Null]
    ELSE IF ~EnoughTracks(in.good)
    THEN [s |-> [s EXCEPT !.prevGray = CurrGrayClone(frame),
                          !.prevPoints = DetectedFeatures(frame, in.detected)],
          threw |-> FALSE, res |-> SlamResult(FALSE), estimated |-> FALSE,
          recovered |-> Null]
    ELSE IF in.essential = "throws"
    THEN [s |-> s, threw |-> TRUE, res |-> Null, estimated |-> TRUE,
          recovered |-> Null]
    ELSE IF in.essential = "none" \/ in.recover = "throws"
    THEN [s |-> SolveFailed(s, in, frame), threw |-> FALSE,
          res |-> SlamResult(TRUE), estimated |-> TRUE, recovered |-> Null]
    ELSE [s |-> SolveDone(s, in, frame), threw |-> FALSE,
          res |-> SlamResult(TRUE), estimated |-> TRUE,
          recovered |-> in.motion]

\* part_002:21-227, 229-274: the native objects of one processFrame call on
\* a build with findEssentialMat, by the name of the variable or field that
\* holds them: made |-> the Mats the call constructs, freed |-> those it
\* calls delete() on, kept |-> those a field of the core holds when the call
\* ends, dropped |-> the Mats a field held before the call and no longer
\* holds after it.
NativeObjects(s, in) ==
    LET tracked == [made  |-> {"rgbaMat", "currPoints", "status", "err"},
                    freed |-> {"rgbaMat", "err"},
                    kept  |-> {}, dropped |-> {}]
        solving == [tracked EXCEPT
                      !.made = @ \cup {"prevMat", "currMat", "K", "mask"}]
        reseeded(n) == [n EXCEPT
                          !.made = @ \cup {"prevGray", "prevPoints"},
                          !.kept = @ \cup {"prevGray", "prevPoints"},
                          !.dropped = @ \cup {"old prevGray", "old prevPoints"}]
        solved == [solving EXCEPT
                     !.made = @ \cup (IF in.essential = "none" THEN {} ELSE {"E"})
                                \cup {"R", "t"},
                     !.freed = @ \cup (IF in.essential = "none" THEN {} ELSE {"E"})
                                 \cup {"mask", "prevMat"}]
        triangulation == {"pts1", "pts2", "Kmat", "P1", "Rt", "gemm src3", "P2",
                          "points4D"}
    IN  IF ~s.initialized
        THEN [made  |-> {"gray", "currGray", "rgbaMat", "prevGray", "prevPoints"},
              freed |-> {"rgbaMat"},
              kept  |-> {"gray", "currGray", "prevGray", "prevPoints"},
              dropped |-> {}]
        ELSE IF ~EnoughTracks(in.good) THEN reseeded(tracked)
        ELSE IF in.essential = "throws" THEN solving
        ELSE IF in.essential = "none" \/ in.recover = "throws"
        THEN reseeded(solved)
        ELSE [reseeded(solved) EXCEPT
                !.made = @ \cup {"pose.R", "pose.t"} \cup triangulation,
                !.freed = @ \cup (IF in.triangulate = "ok"
                                  THEN triangulation \ {"gemm src3"} ELSE {}),
                !.kept = @ \cup {"pose.R", "pose.t"},
                !.dropped = @ \cup {"old pose.R", "old pose.t"}]

\* What loop() can observe of the core: it reads the returned object only
\* (script.js:537-538), and of the core's fields only `initialized` decides
\* what a later call returns for given library outcomes.  The frame loop
\* keeps the core up to that; the core's own fields are followed where
\* processFrame is stepped on its own.
ObservedByLoop(s) == [SlamCoreNew EXCEPT !.initialized = s.initialized]

\* The relative motion of this frame as the fusion step reads it, res.delta
\* with R a row-major array of 9 and t an array of 3 (script.js:538,
\* 663-665).  No processFrame under src/ sets the field; this is the result
\* object with the field the design describes (spec 4.3, "Output used by
\* fusion").
ResultWithDelta(out) ==
    IF out.threw \/ IsNull(out.recovered) THEN out.res
    ELSE out.res @@ [delta |-> out.recovered]

\* script.js:538: slamDelta = res?.delta || null.
DeltaOrNull(res) ==
    IF IsNull(res) \/ "delta" \notin DOMAIN res THEN Null ELSE res.delta

\* script.js:632, 663: slamDelta && slamDelta.R && slamDelta.t.
HasMotion(delta) ==
    ~IsNull(delta) /\ "R" \in DOMAIN delta /\ "t" \in DOMAIN delta

(***************************************************************************)
(* script.js: loop(), in the order of its statements.                      *)
(***************************************************************************)
\* script.js:554-610: follow the four corners by optical flow, else detect.
\* flowOk: calcOpticalFlowPyrLK reports status 1 for all four points.
\* found: MarkerTracker.detect finds the template in the frame.
\* A gray Mat: gray.clone() of the given frame.
GrayMat(frame) == [frame |-> frame, deleted |-> FALSE]

\* A Mat of corner points: the frame it locates the corners in, its rows,
\* and how it was made (currPts of the flow, or matFromArray of a detection).
PointsMat(frame, rows, from) ==
    [frame |-> frame, rows |-> rows, from |-> from, deleted |-> FALSE]

\* mat.delete(): the object is released; a reference kept to it dangles.
Deleted(mat) == IF IsNull(mat) THEN mat ELSE [mat EXCEPT !.deleted = TRUE]

\* script.js:554: markerTracking && markerPrevGray && markerPrevPts &&
\* markerPrevPts.rows === 4.
CanFlow(tracking, mGray, mPts) ==
    tracking /\ ~IsNull(mGray) /\ ~IsNull(mPts) /\ mPts.rows = 4

\* The flow-failure branch leaving the released Mats in place.
FlowSectionKeepsBuffers(tracking, mGray, mPts, flowOk, frame) ==
    IF ~CanFlow(tracking, mGray, mPts)
    THEN [tracking |-> tracking, gray |-> mGray, pts |-> mPts, corners |-> FALSE]
    ELSE IF flowOk
    THEN [tracking |-> tracking, gray |-> GrayMat(frame),
          pts |-> PointsMat(frame, 4, "flow"), corners |-> TRUE]
    ELSE [tracking |-> FALSE, gray |-> Deleted(mGray), pts |-> Deleted(mPts),
          corners |-> FALSE]

\* script.js:554-588: the optical-flow section.  flowOk: the flow returned
\* 4 status rows, all 1.
FlowSection(tracking, mGray, mPts, flowOk, frame) ==
    IF ~CanFlow(tracking, mGray, mPts)
    THEN [tracking |-> tracking, gray |-> mGray, pts |-> mPts, corners |-> FALSE]
    ELSE IF flowOk
    THEN [tracking |-> tracking, gray |-> GrayMat(frame),
          pts |-> PointsMat(frame, 4, "flow"), corners |-> TRUE]
    ELSE [tracking |-> FALSE, gray |-> Null, pts |-> Null, corners |-> FALSE]

\* The detection section run although the flow gave corners.
DetectSectionAlways(tracker, af, found, frame) ==
    IF tracker = "ready" /\ found
    THEN [detectCalled |-> TRUE, detected |-> TRUE, tracking |-> TRUE,
          gray |-> GrayMat(frame), pts |-> PointsMat(frame, 4, "detect")]
    ELSE [detectCalled |-> TRUE, detected |-> FALSE, tracking |-> af.tracking,
          gray |-> af.gray, pts |-> af.pts]

\* script.js:590-610: the detection section.  af: the state the flow
\* section left; found: detect returned 4 corners.
DetectSection(tracker, af, found, frame) ==
    IF af.corners
    THEN [detectCalled |-> FALSE, detected |-> FALSE, tracking |-> af.tracking,
          gray |-> af.gray, pts |-> af.pts]
    ELSE IF tracker = "ready" /\ found
    THEN [detectCalled |-> TRUE, detected |-> TRUE, tracking |-> TRUE,
          gray |-> GrayMat(frame), pts |-> PointsMat(frame, 4, "detect")]
    ELSE [detectCalled |-> TRUE, detected |-> FALSE, tracking |-> af.tracking,
          gray |-> af.gray, pts |-> af.pts]

\* script.js:551-610: the marker corners of one frame.  frame: the number
\* of the frame whose gray image is `gray`.
MarkerStep(tracker, tracking, mGray, mPts, flowOk, found, frame) ==
    LET af == FlowSection(tracking, mGray, mPts, flowOk, frame)
        de == DetectSection(tracker, af, found, frame)
    IN  [flowTried |-> CanFlow(tracking, mGray, mPts),
         flowed |-> af.corners,
         afterFlow |-> [tracking |-> af.tracking, gray |-> af.gray, pts |-> af.pts],
         detectCalled |-> de.detectCalled,
         detected |-> de.detected,
         corners |-> af.corners \/ de.detected,
         markerTracking |-> de.tracking,
         markerPrevGray |-> de.gray,
         markerPrevPts  |-> de.pts]

LearnScaleOrReset(scale, pose, slamDelta, ref) ==
    IF HasMotion(slamDelta) /\ ~IsNull(ref)
       /\ ScaleFires(MarkerDisplacement(pose, ref), SlamNorm(slamDelta.t))
    THEN ScaleEma(scale, MarkerDisplacement(pose, ref), SlamNorm(slamDelta.t))
    ELSE 0

\* script.js:632-646: the scale after a frame whose pose was accepted.
LearnScale(scale, pose, slamDelta, ref) ==
    IF HasMotion(slamDelta) /\ ~IsNull(ref)
    THEN LET dMarker == MarkerDisplacement(pose, ref)
             dSlam == SlamNorm(slamDelta.t)
         IN  IF ScaleFires(dMarker, dSlam) THEN ScaleEma(scale, dMarker, dSlam)
                                           ELSE scale
    ELSE scale

\* The fusion step accepting a pose only next to an earlier accepted one.
FusionStepNeedsStable(corners, pose, slamDelta, stable, scale, ref, anc) ==
    IF corners
    THEN IF ~IsNull(pose) /\ ~IsNull(stable) /\ ~poseJumpTooLarge(stable, pose)
         THEN [branch |-> "accepted",
               lastStableMarkerPose |-> pose,
               slamMetricScale |-> LearnScale(scale, pose, slamDelta, ref),
               lastMarkerPoseForScale |-> pose,
               anchorArg |-> pose,
               anchor |-> setAnchorPose(anc, pose)]
         ELSE IF ~IsNull(stable)
         THEN [branch |-> "held",
               lastStableMarkerPose |-> stable,
               slamMetricScale |-> scale,
               lastMarkerPoseForScale |-> ref,
               anchorArg |-> stable,
               anchor |-> setAnchorPose(anc, stable)]
         ELSE [branch |-> "hidden",
               lastStableMarkerPose |-> stable,
               slamMetricScale |-> scale,
               lastMarkerPoseForScale |-> ref,
               anchorArg |-> Null,
               anchor |-> setAnchorPose(anc, Null)]
    ELSE LET moved == IF ~IsNull(stable) /\ HasMotion(slamDelta)
                      THEN PropagatePose(stable, slamDelta, scale)
                      ELSE stable
         IN  [branch |-> IF ~IsNull(stable) /\ HasMotion(slamDelta)
                         THEN "propagated" ELSE "lost",
              lastStableMarkerPose |-> moved,
              slamMetricScale |-> scale,
              lastMarkerPoseForScale |-> ref,
              anchorArg |-> moved,
              anchor |-> setAnchorPose(anc, moved)]

\* script.js:612-694: the fusion step.  corners: the marker's corners were
\* found in this frame; pose: what estimatePose returned for them.
FusionStep(corners, pose, slamDelta, stable, scale, ref, anc) ==
    IF corners
    THEN IF ~IsNull(pose) /\ ~poseJumpTooLarge(stable, pose)
         THEN [branch |-> "accepted",
               lastStableMarkerPose |-> pose,
               slamMetricScale |-> LearnScale(scale, pose, slamDelta, ref),
               lastMarkerPoseForScale |-> pose,
               anchorArg |-> pose,
               anchor |-> setAnchorPose(anc, pose)]
         ELSE IF ~IsNull(stable)
         THEN [branch |-> "held",
               lastStableMarkerPose |-> stable,
               slamMetricScale |-> scale,
               lastMarkerPoseForScale |-> ref,
               anchorArg |-> stable,
               anchor |-> setAnchorPose(anc, stable)]
         ELSE [branch |-> "hidden",
               lastStableMarkerPose |-> stable,
               slamMetricScale |-> scale,
               lastMarkerPoseForScale |-> ref,
               anchorArg |-> Null,
               anchor |-> setAnchorPose(anc, Null)]
    ELSE LET moved == IF ~IsNull(stable) /\ HasMotion(slamDelta)
                      THEN PropagatePose(stable, slamDelta, scale)
                      ELSE stable
         IN  [branch |-> IF ~IsNull(stable) /\ HasMotion(slamDelta)
                         THEN "propagated" ELSE "lost",
              lastStableMarkerPose |-> moved,
              slamMetricScale |-> scale,
              lastMarkerPoseForScale |-> ref,
              anchorArg |-> moved,
              anchor |-> setAnchorPose(anc, moved)]

\* script.js:708-789: the debug feature set.  seeded: rows found by
\* goodFeaturesToTrack on a first frame; good: rows whose flow status is 1;
\* extra: rows goodFeaturesToTrack adds when fewer than MIN_FEATURES are left.
FeatureStep(pGray, pPoints, seeded, good, extra) ==
    IF ~pGray \/ pPoints = 0
    THEN [prevGray |-> TRUE, prevPoints |-> seeded, points |-> seeded,
          call |-> "goodFeaturesToTrack"]
    ELSE LET want == IF MAX_FEATURES - good > 0 THEN MAX_FEATURES - good ELSE 0
             added == IF good < MIN_FEATURES /\ want > 0
                      THEN (IF extra < want THEN extra ELSE want) ELSE 0
         IN  [prevGray |-> TRUE, prevPoints |-> good + added,
              points |-> good + added, call |-> "calcOpticalFlowPyrLK"]

(***************************************************************************)
(* What the camera shows: the values the vision library may return.        *)
(***************************************************************************)
\* cv.solvePnP / cv.Rodrigues: translation in millimetres and rotation.
PnPSolutions ==
    { [tvec |-> << 0, 0, 0 >>,         R |-> Identity3],
      [tvec |-> << 1000, -1334, 0 >>,  R |-> Identity3],
      [tvec |-> << 1800, -2400, 0 >>,  R |-> RotZ90] }

PnPOutcomes == {Null} \cup PnPSolutions

\* cv.recoverPose: rotation and translation direction (thousandths).
\* What recoverPose can return: a unit step along Y, a quarter turn about
\* Z with a short step, no motion at all.
UnitMotion == [R |-> Identity3, t |-> << 0, 1000, 0 >>]

TurnMotion == [R |-> RotZ90, t |-> << 0, 50, 0 >>]

Motions == { UnitMotion, TurnMotion, [R |-> Identity3, t |-> << 0, 0, 0 >>] }

\* Rows goodFeaturesToTrack or the flow may leave: none, or MAX_FEATURES.
FeatureCounts == {0, MAX_FEATURES}

NoFrame == [branch |-> "none", calls |-> << >>]

NoProbe == [fn |-> "none"]

(***************************************************************************)
(* State after the window's load handler has run (script.js:49-178).       *)
(***************************************************************************)
InitProgram ==
    /\ running = FALSE
    /\ startPc = "idle"
    /\ cvInstance = FALSE
    /\ slam = Null
    /\ markerTracker = "null"
    /\ frameIndex = 0
    /\ markerTracking = FALSE
    /\ markerPrevGray = Null
    /\ markerPrevPts = Null
    /\ lastStableMarkerPose = Null
    /\ slamMetricScale = 0
    /\ lastMarkerPoseForScale = Null
    /\ prevGray = FALSE
    /\ prevPoints = 0
    /\ cameraMatrix = FALSE
    /\ worldOrigin = Null
    /\ rawPose = Null
    /\ lastPose = Null
    /\ anchor = [visible |-> FALSE, position |-> << 0, 0, 0 >>,
                 rotation |-> Identity3]
    /\ loopDue = FALSE
    /\ fr = NoFrame

Init == InitProgram /\ probe = NoProbe

\* The OpenCV.js builds initOpenCV can resolve with: which of the
\* primitives probed at startup the build has (script.js:317,
\* marker_tracker.js:26-38).
CvBuilds ==
    [recoverPose : BOOLEAN, findEssentialMat : BOOLEAN,
     findFundamentalMat : BOOLEAN, ORB : BOOLEAN, BFMatcher : BOOLEAN]

canSlamNeedsBoth(cv) ==
    cv.recoverPose /\ cv.findEssentialMat /\ cv.findFundamentalMat

\* script.js:317: the odometry core is enabled only on a build with pose
\* recovery and an epipolar estimator.
canSlam(cv) ==
    cv.recoverPose /\ (cv.findEssentialMat \/ cv.findFundamentalMat)

\* marker_tracker.js:23-39: the constructor returns only on a build with
\* ORB and BFMatcher, and throws otherwise.
TrackerConstructed(cv) == cv.ORB /\ cv.BFMatcher

\* No iteration of loop() has run; cv: the build the Start click handler
\* probed.
StartFrame(cv) == [branch |-> "none", calls |-> << >>, cv |-> cv]

StartARWithoutAwait ==
    /\ startPc = "idle" /\ ~running
    /\ \E cv \in CvBuilds, intrinsics \in BOOLEAN :
          /\ cvInstance' = TRUE
          /\ cameraMatrix' = intrinsics
          /\ slam' = IF canSlam(cv) THEN SlamCoreNew ELSE Null
          /\ markerTracker' = IF TrackerConstructed(cv) THEN "noTemplate" ELSE "null"
          /\ startPc' = IF TrackerConstructed(cv) THEN "loadTemplate" ELSE "loadGLB"
          /\ fr' = StartFrame(cv)
    /\ running' = TRUE
    /\ loopDue' = TRUE
    /\ UNCHANGED << frameIndex, markerTracking, markerPrevGray, markerPrevPts,
                    lastStableMarkerPose, slamMetricScale, lastMarkerPoseForScale,
                    prevGray, prevPoints, worldOrigin, rawPose, lastPose, anchor,
                    probe >>

\* script.js:235-337: the Start click, to the first await that follows the
\* construction of the components: loadTemplate when the MarkerTracker
\* constructor returned (markerTracker holds the tracker, without a
\* template), loadGLB when it threw (markerTracker stays null).  The button
\* is disabled on the click (script.js:240), so the handler runs once.
\* intrinsics: initPose returned.
StartAR ==
    /\ startPc = "idle" /\ ~running
    /\ \E cv \in CvBuilds, intrinsics \in BOOLEAN :
          /\ cvInstance' = TRUE
          /\ cameraMatrix' = intrinsics
          /\ slam' = IF canSlam(cv) THEN SlamCoreNew ELSE Null
          /\ markerTracker' = IF TrackerConstructed(cv) THEN "noTemplate" ELSE "null"
          /\ startPc' = IF TrackerConstructed(cv) THEN "loadTemplate" ELSE "loadGLB"
          /\ fr' = StartFrame(cv)
    /\ UNCHANGED << running, loopDue, frameIndex, markerTracking, markerPrevGray,
                    markerPrevPts, lastStableMarkerPose, slamMetricScale,
                    lastMarkerPoseForScale, prevGray, prevPoints, worldOrigin,
                    rawPose, lastPose, anchor, probe >>

\* script.js:331-337: the promise of loadTemplate settles; a rejection is
\* caught and leaves the tracker without a template.
TemplateSettled ==
    /\ startPc = "loadTemplate"
    /\ \E resolved \in BOOLEAN :
          markerTracker' = IF resolved THEN "ready" ELSE "noTemplate"
    /\ startPc' = "loadGLB"
    /\ UNCHANGED << running, cvInstance, slam, frameIndex, markerTracking,
                    markerPrevGray, markerPrevPts, lastStableMarkerPose,
                    slamMetricScale, lastMarkerPoseForScale, prevGray, prevPoints,
                    cameraMatrix, worldOrigin, rawPose, lastPose, anchor, loopDue,
                    fr, probe >>

\* script.js:339-366: the promise of loadGLB settles (a rejection is
\* caught), running is set and loop() is called.
ModelSettled ==
    /\ startPc = "loadGLB"
    /\ startPc' = "done"
    /\ running' = TRUE
    /\ loopDue' = TRUE
    /\ UNCHANGED << cvInstance, slam, markerTracker, frameIndex, markerTracking,
                    markerPrevGray, markerPrevPts, lastStableMarkerPose,
                    slamMetricScale, lastMarkerPoseForScale, prevGray, prevPoints,
                    cameraMatrix, worldOrigin, rawPose, lastPose, anchor, fr,
                    probe >>

\* The calls one iteration of loop() makes, in the order of its statements
\* (script.js:501, 537, 558, 592, 624, 628-691, 712/727, 809, 867, 872).
\* returned: the fallback left loop() at script.js:796.
FrameCallsAnchorFirst(hasSlam, flowTried, detectCalled, corners, hasTracker, featureCall, returned) ==
    << "grabFrame" >>
    \o (IF hasTracker THEN << "setAnchorPose" >> ELSE << >>)
    \o (IF hasSlam THEN << "processFrame" >> ELSE << >>)
    \o (IF flowTried THEN << "markerFlow" >> ELSE << >>)
    \o (IF detectCalled THEN << "detect" >> ELSE << >>)
    \o (IF corners THEN << "estimatePose" >> ELSE << >>)
    \o << featureCall >>
    \o (IF ~hasTracker /\ ~returned THEN << "estimatePose" >> ELSE << >>)
    \o (IF returned THEN << >> ELSE << "render", "requestAnimationFrame" >>)

FrameCalls(hasSlam, flowTried, detectCalled, corners, hasTracker, featureCall, returned) ==
    << "grabFrame" >>
    \o (IF hasSlam THEN << "processFrame" >> ELSE << >>)
    \o (IF flowTried THEN << "markerFlow" >> ELSE << >>)
    \o (IF detectCalled THEN << "detect" >> ELSE << >>)
    \o (IF corners THEN << "estimatePose" >> ELSE << >>)
    \o (IF hasTracker THEN << "setAnchorPose" >> ELSE << >>)
    \o << featureCall >>
    \o (IF ~hasTracker /\ ~returned THEN << "estimatePose" >> ELSE << >>)
    \o (IF returned THEN << >> ELSE << "render", "requestAnimationFrame" >>)

\* The inputs a frame can be asked for: each is drawn only where loop()
\* reads it.
SlamInputsFor(s) ==
    IF IsNull(s) \/ ~s.initialized
    THEN { SlamInput(0, "ok", "ok", Null, "ok", << >>) }
    ELSE SlamInputs(Motions)

FlowAttempted ==
    markerTracker # "null" /\ CanFlow(markerTracking, markerPrevGray, markerPrevPts)

FlowOutcomes == IF FlowAttempted THEN BOOLEAN ELSE {FALSE}

DetectOutcomes(flowOk) ==
    IF markerTracker = "ready" /\ ~(FlowAttempted /\ flowOk) THEN BOOLEAN ELSE {FALSE}

FirstFeatureFrame == ~prevGray \/ prevPoints = 0

SeedCounts == IF FirstFeatureFrame THEN FeatureCounts ELSE {0}

GoodCounts ==
    IF FirstFeatureFrame THEN {0} ELSE {c \in FeatureCounts : c <= prevPoints}

ExtraCounts(good) ==
    IF FirstFeatureFrame \/ good >= MIN_FEATURES THEN {0} ELSE FeatureCounts

SolveOutcomes(flowOk, found, seeded, tracked) ==
    IF markerTracker = "null"
    THEN (IF (IF FirstFeatureFrame THEN seeded ELSE tracked) < 4
          THEN {Null} ELSE PnPOutcomes)
    ELSE (IF (FlowAttempted /\ flowOk) \/ found THEN PnPOutcomes ELSE {Null})

\* script.js:495-873: one call of loop() for a grabbed frame, given what
\* the vision library returns for it.  withDelta: processFrame's result
\* carries the delta field; frame: the value frameIndex takes at
\* script.js:498.
LoopOn(withDelta, frame, sIn, flowOk, seeded, good, found, extra, pnp) ==
    /\ loopDue /\ running /\ cvInstance
    /\  \* Each part of the iteration is worked out once, in the order of
        \* the statements of loop().
        \E out \in { IF IsNull(slam)                              \* 533-543
                     THEN [s |-> slam, threw |-> FALSE, res |-> Null,
                           estimated |-> FALSE, recovered |-> Null]
                     ELSE processFrame(slam, sIn, frame) } :
        \E mk \in { IF markerTracker # "null"                     \* 550-610
                    THEN MarkerStep(markerTracker, markerTracking, markerPrevGray,
                                    markerPrevPts, flowOk, found, frame)
                    ELSE [flowTried |-> FALSE, flowed |-> FALSE,
                          afterFlow |-> [tracking |-> markerTracking,
                                         gray |-> markerPrevGray,
                                         pts |-> markerPrevPts],
                          detectCalled |-> FALSE,
                          detected |-> FALSE, corners |-> FALSE,
                          markerTracking |-> markerTracking,
                          markerPrevGray |-> markerPrevGray,
                          markerPrevPts |-> markerPrevPts] } :
        \E ep \in { IF mk.corners THEN estimatePose(PoseModule, pnp) \* 612-624
                                  ELSE [m |-> PoseModule, pose |-> Null] } :
        \E slamDelta \in { IF out.threw THEN Null
                           ELSE DeltaOrNull(IF withDelta THEN ResultWithDelta(out)
                                                         ELSE out.res) } :
        \E fu \in { IF markerTracker # "null"                     \* 625-694
                    THEN FusionStep(mk.corners, ep.pose, slamDelta,
                                    lastStableMarkerPose, slamMetricScale,
                                    lastMarkerPoseForScale, anchor)
                    ELSE [branch |-> "noTracker",
                          lastStableMarkerPose |-> lastStableMarkerPose,
                          slamMetricScale |-> slamMetricScale,
                          lastMarkerPoseForScale |-> lastMarkerPoseForScale,
                          anchorArg |-> Null,
                          anchor |-> anchor] } :
        \E ft \in { FeatureStep(prevGray, prevPoints, seeded, good, extra) } : \* 708-789
        LET hasTracker == markerTracker # "null"
            \* 791-821: the fallback when there is no marker tracker
            fallback == ~hasTracker
            returned == fallback /\ ft.points < 4
            ep2 == IF fallback /\ ~returned THEN estimatePose(ep.m, pnp)
                                            ELSE [m |-> ep.m, pose |-> Null]
            calls == FrameCalls(~IsNull(slam), mk.flowTried, mk.detectCalled,
                                mk.corners, hasTracker, ft.call, returned)
        IN  /\ slam' = (IF IsNull(slam) THEN slam ELSE ObservedByLoop(out.s))
            /\ markerTracking' = mk.markerTracking
            /\ markerPrevGray' = mk.markerPrevGray
            /\ markerPrevPts' = mk.markerPrevPts
            /\ lastStableMarkerPose' = fu.lastStableMarkerPose
            /\ slamMetricScale' = fu.slamMetricScale
            /\ lastMarkerPoseForScale' = fu.lastMarkerPoseForScale
            /\ anchor' = fu.anchor
            /\ prevGray' = ft.prevGray
            /\ prevPoints' = ft.prevPoints
            /\ rawPose' = ep2.m.rawPose
            /\ lastPose' = ep2.m.lastPose
            /\ loopDue' = ~returned
            /\ fr' = [branch |-> fu.branch,
                      slamCalled |-> ~IsNull(slam),
                      recovered |-> out.recovered,
                      slamDelta |-> slamDelta,
                      flowTried |-> mk.flowTried,
                      flowed |-> mk.flowed,
                      afterFlow |-> mk.afterFlow,
                      detected |-> mk.detected,
                      detectCalled |-> mk.detectCalled,
                      corners |-> mk.corners,
                      pose |-> ep.pose,
                      anchorArg |-> fu.anchorArg,
                      scaleBefore |-> slamMetricScale,
                      calls |-> calls]
    /\ frameIndex' = frame
    /\ UNCHANGED << running, startPc, cvInstance, markerTracker, cameraMatrix,
                    worldOrigin, probe >>

\* script.js:495-873: one call of loop(), for every outcome of the vision
\* library on the frame.
LoopFrame(withDelta) ==
    /\ frameIndex < MaxFrames
    /\ \E sIn \in SlamInputsFor(slam), flowOk \in FlowOutcomes,
          seeded \in SeedCounts, good \in GoodCounts :
       \E found \in DetectOutcomes(flowOk), extra \in ExtraCounts(good) :
       \E pnp \in SolveOutcomes(flowOk, found, seeded, good + extra) :
          LoopOn(withDelta, frameIndex + 1, sIn, flowOk, seeded, good, found,
                 extra, pnp)

\* The code under src/: processFrame returns no delta.
Loop == LoopFrame(FALSE)

\* With the odometry core delivering the delta the fusion step reads.
LoopWithDelta == LoopFrame(TRUE)

Next == StartAR \/ TemplateSettled \/ ModelSettled \/ Loop

Spec == Init /\ [][Next]_vars

NextFusion == StartAR \/ TemplateSettled \/ ModelSettled \/ LoopWithDelta

SpecFusion == Init /\ [][NextFusion]_vars

(***************************************************************************)
(* The frame loop running on without end before a scene at rest: the       *)
(* marker stays in view, the features are all followed and the camera does *)
(* not move.  frameIndex is read only by logEvery (script.js:104-106); it  *)
(* is followed up to MaxFrames, and the frames after that are numbered     *)
(* MaxFrames + 1 and MaxFrames in turn.  From frame MaxFrames on solvePnP  *)
(* returns what it returned for the solve before.                          *)
(***************************************************************************)
NextFrameIndex == IF frameIndex <= MaxFrames THEN frameIndex + 1 ELSE MaxFrames

\* recoverPose on two views from the same place.
StillMotion == [R |-> Identity3, t |-> << 0, 0, 0 >>]

\* The odometry's frame: the first frame seeds, later frames keep 8 pairs
\* and recover no motion.
SteadySlamInput ==
    IF IsNull(slam) \/ ~slam.initialized
    THEN SlamInput(0, "ok", "ok", Null, "ok", << >>)
    ELSE SlamInput(8, "ok", "ok", StillMotion, "ok", << >>)

\* The first frame of the feature set finds MAX_FEATURES corners; the flow
\* keeps every feature it is given.
SteadySeeded == IF FirstFeatureFrame THEN MAX_FEATURES ELSE 0

SteadyGood == IF FirstFeatureFrame THEN 0 ELSE prevPoints

\* The corners are followed by the flow when it is tried, and found by
\* detect otherwise.
SteadyFound == markerTracker = "ready" /\ ~FlowAttempted

\* solvePnP's outcome pnp is the one of the last solve.
SameSolve(pnp) ==
    /\ ~IsNull(pnp)
    /\ normalizeTranslation(pnp.tvec) = rawPose.position
    /\ pnp.R = rawPose.rotationMatrix

\* script.js:495-873: one call of loop() on a frame of the scene at rest.
LoopSteady ==
    \E pnp \in SolveOutcomes(FlowAttempted, SteadyFound, SteadySeeded, SteadyGood) :
       /\ (frameIndex >= MaxFrames /\ ~IsNull(rawPose)) => SameSolve(pnp)
       /\ LoopOn(FALSE, NextFrameIndex, SteadySlamInput, FlowAttempted,
                 SteadySeeded, SteadyGood, SteadyFound, 0, pnp)

NextSteady == StartAR \/ TemplateSettled \/ ModelSettled \/ LoopSteady

\* script.js:872: every iteration ends by requestAnimationFrame(loop), and
\* the browser runs the callback it was handed.
SpecSteady == Init /\ [][NextSteady]_vars /\ WF_vars(LoopSteady)

(***************************************************************************)
(* marker_tracker.js (src/js/marker_tracker.js:1-208), the MarkerTracker   *)
(* with loadTemplate that main.js constructs.                              *)
(***************************************************************************)
\* marker_tracker.js:112: fewer frame keypoints than this give no detection.
MinFrameKeypoints == 10
\* marker_tracker.js:141: fewer ratio-test matches than this give none.
MinGoodMatches == 12

\* marker_tracker.js:7-21: a tracker without a template.  Descriptor and
\* keypoint Mats are held as their row counts.
MarkerTrackerNew ==
    [templateGray |-> FALSE, templateKeypoints |-> Null,
     templateDescriptors |-> Null, templateW |-> 0, templateH |-> 0]

\* marker_tracker.js:45-80: loadTemplate(url).  in.decoded: the image
\* loaded (onload, not onerror); in.w, in.h: its size; in.keypoints: what
\* ORB finds in it.
loadTemplate(t, in) ==
    IF ~in.decoded
    THEN [t |-> t, rejected |-> TRUE]
    ELSE [t |-> [templateGray |-> TRUE,
                 templateKeypoints |-> [rows |-> in.keypoints],
                 templateDescriptors |-> [rows |-> in.keypoints],
                 templateW |-> in.w, templateH |-> in.h],
          rejected |-> FALSE]

\* cv.perspectiveTransform of one point by the row-major 3x3 matrix m.
perspectiveTransform(m, x, y) ==
    LET d == m[7] * x + m[8] * y + m[9]
    IN  [x |-> (m[1] * x + m[2] * y + m[3]) \div d,
         y |-> (m[4] * x + m[5] * y + m[6]) \div d]

\* marker_tracker.js:178: !H || H.empty() || H.rows !== 3 || H.cols !== 3.
BadHomography(H) ==
    IsNull(H) \/ H.rows = 0 \/ H.cols = 0 \/ H.rows # 3 \/ H.cols # 3

\* marker_tracker.js:104-207: detect(frameGray).  in.frameKeypoints: what
\* ORB finds in the frame; in.good: the matches that pass the ratio test;
\* in.H: what findHomography returns; in.inliers: the non-zero entries of
\* its mask, which detect releases unread (marker_tracker.js:173).
detect(t, in) ==
    IF IsNull(t.templateDescriptors) \/ t.templateDescriptors.rows = 0 THEN Null
    ELSE IF in.frameKeypoints = 0 \/ in.frameKeypoints < MinFrameKeypoints THEN Null
    ELSE IF in.good < MinGoodMatches THEN Null
    ELSE IF BadHomography(in.H) THEN Null
    ELSE [corners |-> << perspectiveTransform(in.H.m, 0, 0),
                         perspectiveTransform(in.H.m, t.templateW, 0),
                         perspectiveTransform(in.H.m, t.templateW, t.templateH),
                         perspectiveTransform(in.H.m, 0, t.templateH) >>,
          homography |-> in.H]

\* Reference images: undecodable, without texture, with texture.
TemplateInputs ==
    { [decoded |-> FALSE, w |-> 0, h |-> 0, keypoints |-> 0] }
    \cup { [decoded |-> TRUE, w |-> 200, h |-> 100, keypoints |-> k] :
              k \in {0, 3, 500} }

\* What findHomography can return: nothing, an empty Mat, a Mat of another
\* shape, a translation with scale, a projective map.
Homographies ==
    { Null,
      [rows |-> 0, cols |-> 0, m |-> << >>],
      [rows |-> 2, cols |-> 3, m |-> << 1, 0, 0, 0, 1, 0 >>],
      [rows |-> 3, cols |-> 3, m |-> << 2, 0, 10, 0, 2, 20, 0, 0, 1 >>],
      [rows |-> 3, cols |-> 3, m |-> << 3, 0, 0, 0, 3, 0, 1, 0, 100 >>] }

\* Frames: their keypoints, the matches that pass the ratio test (at most
\* one per keypoint), the homography and its inliers (among the matches;
\* none without a homography, at least the 4 of its sample with one).
DetectInputs ==
    { [frameKeypoints |-> k, good |-> g, H |-> H, inliers |-> n] :
        k \in {0, 9, 10, 40}, g \in {0, 9, 11, 12, 30},
        H \in Homographies, n \in {0, 4, 11, 12, 30} }

(***************************************************************************)
(* The helpers applied on their own, on arguments drawn from bounded sets. *)
(***************************************************************************)
\* Calls of detect explored on one tracker.
MaxDetects == 2

\* Positions around the jump threshold, in millimetres.
JumpGrid ==
    { << x, y, z >> : x \in {0, 150, 250, 251}, y \in {0, 200}, z \in {0, 1} }

JumpArgs == {Null} \cup { [position |-> p] : p \in JumpGrid }

InitHelpers ==
    /\ InitProgram
    /\ probe \in { [fn |-> "poseJumpTooLarge", prev |-> a, next |-> b, done |-> FALSE] :
                      a \in JumpArgs, b \in JumpArgs }
                 \cup { [fn |-> "MarkerTracker", tracker |-> MarkerTrackerNew,
                         loaded |-> "no", template |-> Null, detects |-> 0,
                         in |-> Null, out |-> Null] }

ProgramUnchanged ==
    UNCHANGED << running, startPc, cvInstance, slam, markerTracker, frameIndex,
                 markerTracking, markerPrevGray, markerPrevPts,
                 lastStableMarkerPose, slamMetricScale, lastMarkerPoseForScale,
                 prevGray, prevPoints, cameraMatrix, worldOrigin, rawPose,
                 lastPose, anchor, loopDue, fr >>

ApplyPoseJumpTooLarge ==
    /\ probe.fn = "poseJumpTooLarge" /\ ~probe.done
    /\ probe' = [fn |-> probe.fn, prev |-> probe.prev, next |-> probe.next,
                 done |-> TRUE, out |-> poseJumpTooLarge(probe.prev, probe.next)]
    /\ ProgramUnchanged

\* script.js:329-337: the tracker's template is loaded once, at startup.
ApplyLoadTemplate ==
    /\ probe.fn = "MarkerTracker" /\ probe.loaded = "no"
    /\ \E in \in TemplateInputs :
         LET r == loadTemplate(probe.tracker, in)
         IN  probe' = [probe EXCEPT !.tracker = r.t,
                                    !.loaded = IF r.rejected THEN "rejected"
                                                             ELSE "resolved",
                                    !.template = in]
    /\ ProgramUnchanged

\* script.js:592: detect on the tracker startup left, template or not.
ApplyDetect ==
    /\ probe.fn = "MarkerTracker" /\ probe.loaded # "no"
    /\ probe.detects < MaxDetects
    /\ \E in \in DetectInputs :
         /\ in.good <= in.frameKeypoints
         /\ in.inliers <= in.good
         /\ BadHomography(in.H) => in.inliers = 0
         /\ ~BadHomography(in.H) => in.inliers >= 4
         /\ probe' = [probe EXCEPT !.detects = @ + 1, !.in = in,
                                   !.out = detect(probe.tracker, in)]
    /\ ProgramUnchanged

NextHelpers == ApplyPoseJumpTooLarge \/ ApplyLoadTemplate \/ ApplyDetect

SpecHelpers == InitHelpers /\ [][NextHelpers]_vars

(***************************************************************************)
(* processFrame stepped on its own on successive frames, the core's own    *)
(* fields followed.                                                        *)
(***************************************************************************)
\* Calls of processFrame explored on one core.
MaxSlamFrames == 3

\* A column of points4D: homogeneous coordinates in units of 1e-9.
Point4D(x, y, z, w) == [x |-> x, y |-> y, z |-> z, w |-> w, finite |-> TRUE]

\* What triangulatePoints can return: points at the weight floor and below
\* it, points at the coordinate limit and beyond it, a point whose
\* quotients are not finite.
PointClouds ==
    { << >>,
      << Point4D(1000, 0, 0, 10), Point4D(9, 9, 9, 9), Point4D(5, 5, 5, 0),
         Point4D(-50, 20, 30, -10) >>,
      << Point4D(101000, 0, 0, 1000), Point4D(100000, 0, -100000, -1000),
         Point4D(0, 0, -101000, 1000),
         [x |-> 0, y |-> 0, z |-> 0, w |-> 1000, finite |-> FALSE],
         Point4D(0, 101000, 0, 1000) >> }

\* Frames for a core: the pairs that survive (no more than the points
\* tracked from), and for a solve every outcome of the library.
SlamFrameInputs(s) ==
    IF ~s.initialized
    THEN { SlamInput(0, "ok", "ok", Null, "ok", << >>) }
    ELSE { in \in
            { SlamInput(g, "ok", "ok", Null, "ok", << >>) : g \in {0, 7} }
            \cup { SlamInput(g, e, "throws", Null, "ok", << >>) :
                      g \in {8, 15, 16}, e \in {"throws", "none", "ok"} }
            \cup { SlamInput(g, "ok", "ok", mo, "throws", << >>) :
                      g \in {8, 15, 16}, mo \in {UnitMotion} }
            \cup { SlamInput(g, "ok", "ok", mo, "ok", c) :
                      g \in {8, 15, 16}, mo \in {UnitMotion, TurnMotion},
                      c \in PointClouds } :
           in.good <= s.prevPoints.rows }

InitSlam ==
    /\ InitProgram
    /\ probe = [fn |-> "processFrame", calls |-> 0]

\* script.js:319: slam = new SlamCore(cvInstance).
NewSlamCore ==
    /\ probe.fn = "processFrame"
    /\ IsNull(slam)
    /\ slam' = SlamCoreNew
    /\ UNCHANGED << running, startPc, cvInstance, markerTracker, frameIndex,
                    markerTracking, markerPrevGray, markerPrevPts,
                    lastStableMarkerPose, slamMetricScale, lastMarkerPoseForScale,
                    prevGray, prevPoints, cameraMatrix, worldOrigin, rawPose,
                    lastPose, anchor, loopDue, fr, probe >>

\* script.js:537: slam.processFrame(frame) on the next frame; the probe
\* keeps the frame's outcomes, the core before the call and what the call
\* did.
SlamFrame ==
    /\ probe.fn = "processFrame"
    /\ ~IsNull(slam)
    /\ probe.calls < MaxSlamFrames
    /\ \E in \in SlamFrameInputs(slam) :
       \E out \in { processFrame(slam, in, probe.calls + 1) } :
         /\ slam' = out.s
         /\ probe' = [fn |-> "processFrame", calls |-> probe.calls + 1,
                      in |-> in, before |-> slam, threw |-> out.threw,
                      estimated |-> out.estimated, recovered |-> out.recovered,
                      native |-> NativeObjects(slam, in)]
    /\ UNCHANGED << running, startPc, cvInstance, markerTracker, frameIndex,
                    markerTracking, markerPrevGray, markerPrevPts,
                    lastStableMarkerPose, slamMetricScale, lastMarkerPoseForScale,
                    prevGray, prevPoints, cameraMatrix, worldOrigin, rawPose,
                    lastPose, anchor, loopDue, fr >>

NextSlam == NewSlamCore \/ SlamFrame

SpecSlam == InitSlam /\ [][NextSlam]_vars

(***************************************************************************)
(* pose.js stepped on its own: initPose, estimatePose on successive       *)
(* solves, setWorldOrigin between them.                                    *)
(***************************************************************************)
\* Calls of estimatePose explored on one pose module.
MaxSolves == 3

\* Calls of setWorldOrigin explored on one pose module.
MaxOrigins == 2

InitPoseModule ==
    /\ InitProgram
    /\ probe = [fn |-> "pose", op |-> "none", solves |-> 0, origins |-> 0,
                before |-> PoseModule, in |-> Null, out |-> Null,
                twin |-> PoseModule, constant |-> TRUE, first |-> Null,
                captured |-> Null]

PoseUnchanged ==
    UNCHANGED << running, startPc, cvInstance, slam, markerTracker, frameIndex,
                 markerTracking, markerPrevGray, markerPrevPts,
                 lastStableMarkerPose, slamMetricScale, lastMarkerPoseForScale,
                 prevGray, prevPoints, anchor, loopDue, fr >>

\* part_003:56-75: initPose(video, cv) sets the intrinsics.
ApplyInitPose ==
    /\ probe.fn = "pose" /\ ~cameraMatrix
    /\ cameraMatrix' = TRUE
    /\ probe' = [probe EXCEPT !.op = "initPose", !.before = PoseModule,
                              !.twin = [probe.twin EXCEPT !.cameraMatrix = TRUE]]
    /\ UNCHANGED << worldOrigin, rawPose, lastPose >>
    /\ PoseUnchanged

\* part_003:119-203: estimatePose on the next set of points.  The probe
\* keeps the outcome of solvePnP, the module before the call, the pose
\* returned, whether every solve so far gave the same raw pose as the
\* first, and a twin module that is given the same solves and never an
\* origin.
ApplyEstimatePose ==
    /\ probe.fn = "pose" /\ probe.solves < MaxSolves
    /\ \E pnp \in PnPOutcomes :
       \E ep \in { estimatePose(PoseModule, pnp) } :
         /\ worldOrigin' = ep.m.worldOrigin
         /\ rawPose' = ep.m.rawPose
         /\ lastPose' = ep.m.lastPose
         /\ probe' = [probe EXCEPT
                        !.op = "estimatePose", !.solves = @ + 1,
                        !.before = PoseModule, !.in = pnp, !.out = ep.pose,
                        !.twin = estimatePose(probe.twin, pnp).m,
                        !.first = IF IsNull(ep.pose) \/ ~IsNull(probe.first)
                                  THEN @ ELSE pnp,
                        !.constant = IF IsNull(ep.pose) THEN @
                                     ELSE @ /\ (IsNull(probe.first)
                                                 \/ probe.first = pnp)]
    /\ UNCHANGED cameraMatrix
    /\ PoseUnchanged

\* part_003:91-100: setWorldOrigin().  The probe keeps the smoothed pose
\* held when an origin was captured.
ApplySetWorldOrigin ==
    /\ probe.fn = "pose" /\ probe.origins < MaxOrigins
    /\ \E m \in { setWorldOrigin(PoseModule) } :
         /\ worldOrigin' = m.worldOrigin
         /\ rawPose' = m.rawPose
         /\ lastPose' = m.lastPose
         /\ probe' = [probe EXCEPT
                        !.op = "setWorldOrigin", !.origins = @ + 1,
                        !.before = PoseModule,
                        !.captured = IF IsNull(rawPose) THEN @ ELSE lastPose]
    /\ UNCHANGED cameraMatrix
    /\ PoseUnchanged

NextPose == ApplyInitPose \/ ApplyEstimatePose \/ ApplySetWorldOrigin

SpecPose == InitPoseModule /\ [][NextPose]_vars

(***************************************************************************)
(* The Start click handlers stepped await by await, with the events of the *)
(* page between them: the handler of the application (src/script.js:       *)
(* 235-395) and the handler of the earlier bootstrap (src/js/main.js:      *)
(* 294-357, second module).  probe.pc[h] is where the handler of click h   *)
(* stands; probe.loops counts the requestAnimationFrame chains started by  *)
(* loop(), probe.cores the SlamCore objects constructed.                   *)
(***************************************************************************)
\* Start clicks explored.
MaxClicks == 3

\* videoWidth and videoHeight of the streams getUserMedia may deliver.
VideoSizes == { << 640, 480 >>, << 1280, 720 >> }

\* A media element without metadata reports videoWidth = videoHeight = 0.
NoVideo == << 0, 0 >>

\* The builds window.cv can resolve with: mat tells whether cv.Mat is
\* usable, cv which primitives the build has.
StartBuilds ==
    { [mat |-> m, cv |-> b] :
        m \in BOOLEAN,
        b \in { c \in CvBuilds : c.findEssentialMat /\ ~c.findFundamentalMat
                                 /\ c.BFMatcher } }

\* The intrinsics with the focal length taken from the height.
initPoseHeightFocal(width, height) ==
    [cameraMatrix |-> << height, 0, width \div 2,
                         0, height, height \div 2,
                         0, 0, 1 >>,
     distCoeffs |-> << 0, 0, 0, 0 >>]

\* part_003:56-75: the cameraMatrix and distCoeffs initPose builds for a
\* video of the given size.
initPose(width, height) ==
    [cameraMatrix |-> << width, 0, width \div 2,
                         0, width, height \div 2,
                         0, 0, 1 >>,
     distCoeffs |-> << 0, 0, 0, 0 >>]

\* The handler that never disables its button.
DisablesButtonNever(app) == FALSE

\* script.js:239-242 sets startBtn.disabled on the click; the handler of
\* main.js:294-297 does not touch the button before it has started.
DisablesButton(app) == app = "script"

\* script.js:383-394: the handler's catch block; main.js:294-357 has none.
CatchesFailure(app) == app = "script"

InitStart ==
    /\ InitProgram
    /\ \E app \in {"script", "bootstrap"}, build \in StartBuilds :
         probe = [fn |-> "start", app |-> app, build |-> build, pc |-> << >>,
                  disabled |-> FALSE, hidden |-> FALSE, loops |-> 0,
                  cores |-> 0, pending |-> FALSE, ready |-> FALSE,
                  stream |-> "none", resolver |-> 0, video |-> NoVideo,
                  intrinsics |-> Null, posed |-> FALSE, failed |-> FALSE,
                  solved |-> FALSE, out |-> Null]

StartUnchanged ==
    UNCHANGED << startPc, frameIndex, markerTracking, markerPrevGray,
                 markerPrevPts, lastStableMarkerPose, slamMetricScale,
                 lastMarkerPoseForScale, prevGray, prevPoints, worldOrigin,
                 anchor, loopDue, fr >>

\* The handlers standing at the given await.
HandlersAt(pc) == { h \in 1..Len(probe.pc) : probe.pc[h] = pc }

\* A rejected await or a throw in the handler of click h: the catch block
\* of script.js:383-394 clears running and gives the button back; in
\* main.js the rejection ends the handler and nothing else.
Failed(p, h) ==
    IF CatchesFailure(p.app)
    THEN [p EXCEPT !.pc[h] = "failed", !.failed = TRUE, !.disabled = FALSE,
                   !.hidden = FALSE]
    ELSE [p EXCEPT !.pc[h] = "failed", !.failed = TRUE]

\* initPose(videoEl, cvInstance) called in a try block (script.js:170-174,
\* 306-313): it throws on a build without cv.Mat.
PoseInitialized(p) ==
    IF p.build.mat
    THEN [p EXCEPT !.posed = TRUE,
                   !.intrinsics = initPose(p.video[1], p.video[2])]
    ELSE [p EXCEPT !.posed = TRUE]

\* script.js:235-242, main.js:294-297: a click on the Start button.  A
\* disabled or hidden button receives no click.
StartClick ==
    /\ probe.fn = "start"
    /\ Len(probe.pc) < MaxClicks
    /\ ~probe.disabled /\ ~probe.hidden
    /\ probe' = IF running
                THEN [probe EXCEPT !.pc = Append(@, "returned")]
                ELSE [probe EXCEPT !.pc = Append(@, "camera"),
                                   !.failed = FALSE,
                                   !.disabled = DisablesButton(probe.app)]
    /\ UNCHANGED << running, cvInstance, cameraMatrix, slam, markerTracker,
                    rawPose, lastPose >>
    /\ StartUnchanged

\* part_000:24-37: getUserMedia settles for a handler inside camera.start();
\* granted, the stream becomes the video's source and the promise's
\* resolver is installed as video.onloadedmetadata.
StreamSettled ==
    /\ probe.fn = "start"
    /\ \E h \in HandlersAt("camera"), granted \in BOOLEAN :
         /\ probe' = IF granted
                     THEN [probe EXCEPT !.pc[h] = "metadata",
                                        !.stream = "loading",
                                        !.video = NoVideo, !.resolver = h]
                     ELSE Failed(probe, h)
         /\ running' = (IF ~granted /\ CatchesFailure(probe.app) THEN FALSE
                                                                  ELSE running)
    /\ UNCHANGED << cvInstance, cameraMatrix, slam, markerTracker, rawPose,
                    lastPose >>
    /\ StartUnchanged

\* The video's loadedmetadata event: the listener of script.js:168-178
\* (main.js:258-268), then the onloadedmetadata installed by camera.start()
\* (part_000:28-36), which marks the camera ready and resolves the promise
\* of the handler that installed it.
MetadataLoaded ==
    /\ probe.fn = "start"
    /\ probe.stream = "loading"
    /\ \E size \in VideoSizes :
       \E sized \in { [probe EXCEPT !.stream = "loaded", !.video = size] } :
       \E heard \in { IF cvInstance THEN PoseInitialized(sized)
                                    ELSE [sized EXCEPT !.pending = TRUE] } :
         /\ probe' = [heard EXCEPT
                        !.ready = TRUE,
                        !.pc = [h \in DOMAIN @ |->
                                  IF h = probe.resolver /\ @[h] = "metadata"
                                  THEN "play" ELSE @[h]]]
         /\ cameraMatrix' = (cameraMatrix \/ (cvInstance /\ probe.build.mat))
    /\ UNCHANGED << running, cvInstance, slam, markerTracker, rawPose, lastPose >>
    /\ StartUnchanged

\* script.js:248, main.js:299: await videoEl.play() settles.
VideoPlaying ==
    /\ probe.fn = "start"
    /\ \E h \in HandlersAt("play"), played \in BOOLEAN :
         /\ probe' = IF played THEN [probe EXCEPT !.pc[h] = "opencv"]
                               ELSE Failed(probe, h)
         /\ running' = (IF ~played /\ CatchesFailure(probe.app) THEN FALSE
                                                                 ELSE running)
    /\ UNCHANGED << cvInstance, cameraMatrix, slam, markerTracker, rawPose,
                    lastPose >>
    /\ StartUnchanged

\* script.js:280-337: initOpenCV() settles in the application's handler;
\* resolved, the handler runs on to its next await: initPose in its try
\* block, the odometry core if the build can run it, the marker tracker.
\* new SlamCore throws on a build without cv.Mat (part_002:7).
OpenCVReady ==
    /\ probe.fn = "start" /\ probe.app = "script"
    /\ \E h \in HandlersAt("opencv"), resolved \in BOOLEAN :
       \E posed \in { IF probe.pending \/ probe.stream = "loaded"
                      THEN PoseInitialized(probe) ELSE probe } :
         IF ~resolved
         THEN /\ probe' = Failed(probe, h)
              /\ running' = FALSE
              /\ UNCHANGED << cvInstance, cameraMatrix, slam, markerTracker >>
         ELSE /\ cvInstance' = TRUE
              /\ cameraMatrix' = (cameraMatrix \/ ~IsNull(posed.intrinsics))
              /\ IF canSlam(probe.build.cv) /\ ~probe.build.mat
                 THEN /\ probe' = Failed(posed, h)
                      /\ running' = FALSE
                      /\ UNCHANGED << slam, markerTracker >>
                 ELSE /\ slam' = IF canSlam(probe.build.cv) THEN SlamCoreNew
                                                            ELSE Null
                      /\ markerTracker' = IF TrackerConstructed(probe.build.cv)
                                          THEN "noTemplate" ELSE "null"
                      /\ probe' = [posed EXCEPT
                                     !.cores = IF canSlam(probe.build.cv)
                                               THEN @ + 1 ELSE @,
                                     !.pc[h] = IF TrackerConstructed(probe.build.cv)
                                               THEN "template" ELSE "model"]
                      /\ UNCHANGED running
    /\ UNCHANGED << rawPose, lastPose >>
    /\ StartUnchanged

\* script.js:331-337: loadTemplate settles; a rejection is caught.
TemplateLoaded ==
    /\ probe.fn = "start"
    /\ \E h \in HandlersAt("template"), resolved \in BOOLEAN :
         /\ markerTracker' = IF resolved THEN "ready" ELSE "noTemplate"
         /\ probe' = [probe EXCEPT !.pc[h] = "model"]
    /\ UNCHANGED << running, cvInstance, cameraMatrix, slam, rawPose, lastPose >>
    /\ StartUnchanged

\* script.js:339-382: loadGLB settles (a rejection is caught); running is
\* set, loop() is called and starts a chain of requestAnimationFrame
\* callbacks, the button is hidden.
ModelLoaded ==
    /\ probe.fn = "start"
    /\ \E h \in HandlersAt("model") :
         probe' = [probe EXCEPT !.pc[h] = "done", !.loops = @ + 1,
                                !.hidden = TRUE]
    /\ running' = TRUE
    /\ UNCHANGED << cvInstance, cameraMatrix, slam, markerTracker, rawPose,
                    lastPose >>
    /\ StartUnchanged

\* main.js:324-354: initOpenCV() settles in the bootstrap's handler;
\* resolved, the handler runs to its end: initPose in its try block, new
\* SlamCore, running set, loop() called, the button hidden.
BootstrapReady ==
    /\ probe.fn = "start" /\ probe.app = "bootstrap"
    /\ \E h \in HandlersAt("opencv"), resolved \in BOOLEAN :
       \E posed \in { IF probe.pending \/ probe.stream = "loaded"
                      THEN PoseInitialized(probe) ELSE probe } :
         IF ~resolved
         THEN /\ probe' = Failed(probe, h)
              /\ UNCHANGED << running, cvInstance, cameraMatrix, slam >>
         ELSE /\ cvInstance' = TRUE
              /\ cameraMatrix' = (cameraMatrix \/ ~IsNull(posed.intrinsics))
              /\ IF ~probe.build.mat
                 THEN /\ probe' = Failed(posed, h)
                      /\ UNCHANGED << running, slam >>
                 ELSE /\ slam' = SlamCoreNew
                      /\ running' = TRUE
                      /\ probe' = [posed EXCEPT !.cores = @ + 1,
                                                !.loops = @ + 1,
                                                !.hidden = TRUE,
                                                !.pc[h] = "done"]
    /\ UNCHANGED << markerTracker, rawPose, lastPose >>
    /\ StartUnchanged

\* script.js:624: the first estimatePose call of a running frame loop.
FirstSolve ==
    /\ probe.fn = "start"
    /\ running /\ cvInstance /\ probe.loops > 0 /\ ~probe.solved
    /\ \E pnp \in PnPSolutions :
       \E ep \in { estimatePose(PoseModule, pnp) } :
         /\ rawPose' = ep.m.rawPose
         /\ lastPose' = ep.m.lastPose
         /\ probe' = [probe EXCEPT !.solved = TRUE, !.out = ep.pose]
    /\ UNCHANGED << running, cvInstance, cameraMatrix, slam, markerTracker >>
    /\ StartUnchanged

NextStart ==
    \/ StartClick \/ StreamSettled \/ MetadataLoaded \/ VideoPlaying
    \/ OpenCVReady \/ TemplateLoaded \/ ModelLoaded \/ BootstrapReady
    \/ FirstSolve

SpecStart == InitStart /\ [][NextStart]_vars

(***************************************************************************)
(* Properties.                                                             *)
(***************************************************************************)
\* This step is one iteration of loop().
FrameStep == frameIndex' = frameIndex + 1

\* The Euclidean distance of two positions exceeds the jump threshold.
FarApart(p, q) ==
    \/ Abs(p[1] - q[1]) > JumpLimit
    \/ Abs(p[2] - q[2]) > JumpLimit
    \/ Abs(p[3] - q[3]) > JumpLimit
    \/ (p[1] - q[1]) * (p[1] - q[1]) + (p[2] - q[2]) * (p[2] - q[2])
         + (p[3] - q[3]) * (p[3] - q[3]) > JumpLimit * JumpLimit

C2_JumpPredicate ==
    (probe.fn = "poseJumpTooLarge" /\ probe.done) =>
        /\ probe.out <=>
             ( /\ ~IsNull(probe.prev) /\ ~IsNull(probe.next)
               /\ SumSq(probe.next.position[1] - probe.prev.position[1],
                        probe.next.position[2] - probe.prev.position[2],
                        probe.next.position[3] - probe.prev.position[3])
                    > JumpLimit * JumpLimit )
        /\ probe.out = poseJumpTooLarge(probe.next, probe.prev)
        /\ (IsNull(probe.prev) \/ IsNull(probe.next)) => ~probe.out

\* C2 witness: two poses exactly 0.25 m apart, not rejected.
C2_Witness ==
    /\ probe.fn = "poseJumpTooLarge" /\ probe.done
    /\ ~IsNull(probe.prev) /\ ~IsNull(probe.next)
    /\ SumSq(probe.next.position[1] - probe.prev.position[1],
             probe.next.position[2] - probe.prev.position[2],
             probe.next.position[3] - probe.prev.position[3])
         = JumpLimit * JumpLimit
    /\ ~probe.out

C4_DeltaReachesFusion ==
    (fr.branch # "none" /\ fr.slamCalled) => fr.slamDelta = fr.recovered

\* The position script.js:663-688 gives a pose moved by (R, t): R applied to
\* the old position plus the scaled translation with its Y component negated.
MovedPosition(old, R, t, scale) ==
    << R[1] * old[1] + R[2] * old[2] + R[3] * old[3] + (t[1] * scale) \div 1000,
       R[4] * old[1] + R[5] * old[2] + R[6] * old[3] + ((-t[2]) * scale) \div 1000,
       R[7] * old[1] + R[8] * old[2] + R[9] * old[3] + (t[3] * scale) \div 1000 >>

\* The same without the Y negation.
MovedPositionPlain(old, R, t, scale) ==
    << R[1] * old[1] + R[2] * old[2] + R[3] * old[3] + (t[1] * scale) \div 1000,
       R[4] * old[1] + R[5] * old[2] + R[6] * old[3] + (t[2] * scale) \div 1000,
       R[7] * old[1] + R[8] * old[2] + R[9] * old[3] + (t[3] * scale) \div 1000 >>

\* The matrix product a.b of two row-major 3x3 matrices.
MatProduct(a, b) ==
    [ k \in 1..9 |->
        LET r == (k - 1) \div 3
            c == (k - 1) % 3
        IN  a[3 * r + 1] * b[c + 1] + a[3 * r + 2] * b[c + 4] + a[3 * r + 3] * b[c + 7] ]

OriginPose == [position |-> << 0, 0, 0 >>, rotationMatrix |-> Identity3,
               rotation |-> << 0, 0, 0 >>]

UnitY == [R |-> Identity3, t |-> << 0, 1000, 0 >>]

StepMarkerDisplacement ==
    Sqrt(SumSq(fr'.pose.position[1] - lastMarkerPoseForScale.position[1],
               fr'.pose.position[2] - lastMarkerPoseForScale.position[2],
               fr'.pose.position[3] - lastMarkerPoseForScale.position[3]))

StepSlamNorm ==
    Sqrt(SumSq(fr'.slamDelta.t[1], fr'.slamDelta.t[2], fr'.slamDelta.t[3]))

\* The scale the rule of script.js:640-643 gives from scale, d and n.
RuleScale(scale, d, n) ==
    IF 10 * d > MarkerFloor /\ 1000 * n > SlamFloor
    THEN IF scale = 0
         THEN (1000 * d) \div n
         ELSE (9 * scale + (1000 * d) \div n) \div 10
    ELSE scale

\* This step is a frame that has an accepted pose, an odometry delta and an
\* earlier accepted pose to measure from.
LearningStep ==
    /\ FrameStep
    /\ fr'.branch = "accepted"
    /\ HasMotion(fr'.slamDelta)
    /\ ~IsNull(lastMarkerPoseForScale)

CallsAt(name) == { i \in 1..Len(fr.calls) : fr.calls[i] = name }

\* Every call named first comes before every call named second.
Before(first, second) ==
    \A i \in CallsAt(first), j \in CallsAt(second) : i < j

\* C10: in each frame renderer.setAnchorPose is called at most once, after
\* the frame's odometry step, marker tracking, detection and pose solve and
\* before renderer.render(), and the components run one after the other.
C10_AnchorOncePerFrame ==
    /\ Cardinality(CallsAt("setAnchorPose")) <= 1
    /\ Before("processFrame", "setAnchorPose")
    /\ Before("markerFlow", "setAnchorPose")
    /\ Before("detect", "setAnchorPose")
    /\ CallsAt("setAnchorPose") # {} => Before("estimatePose", "setAnchorPose")
    /\ Before("setAnchorPose", "render")
    /\ Before("processFrame", "markerFlow")
    /\ Before("processFrame", "detect")
    /\ Before("processFrame", "estimatePose")
    /\ Before("markerFlow", "estimatePose")
    /\ Before("detect", "estimatePose")
    /\ CallsAt("setAnchorPose") # {} => CallsAt("render") # {}

\* C10 witness: a frame ran odometry, marker flow, detection and the pose
\* solve, then set the anchor, then rendered.
C10_Witness ==
    /\ CallsAt("processFrame") # {}
    /\ CallsAt("markerFlow") # {}
    /\ CallsAt("detect") # {}
    /\ CallsAt("estimatePose") # {}
    /\ CallsAt("setAnchorPose") # {}
    /\ CallsAt("render") # {}

\* The two states of the marker tracker between frames.
Detecting ==
    /\ ~markerTracking
    /\ IsNull(markerPrevGray)
    /\ IsNull(markerPrevPts)

Tracking ==
    /\ markerTracking
    /\ ~IsNull(markerPrevGray) /\ ~markerPrevGray.deleted
    /\ ~IsNull(markerPrevPts) /\ ~markerPrevPts.deleted
    /\ markerPrevPts.rows = 4

\* This step is one iteration of loop() with a marker tracker.
MarkerFrameStep == FrameStep /\ markerTracker # "null"

\* C11: from Tracking the next frame follows the corners by optical flow,
\* and a frame whose flow succeeds for all 4 points stays in Tracking, holds
\* the current gray frame and the current corner points as its buffers,
\* and does not call detect().
C11_FlowKeepsTracking ==
    [][ MarkerFrameStep =>
          /\ Tracking => fr'.flowTried
          /\ fr'.flowed =>
               /\ markerTracking'
               /\ markerPrevGray' = [frame |-> frameIndex', deleted |-> FALSE]
               /\ markerPrevPts' = [frame |-> frameIndex', rows |-> 4,
                                    from |-> "flow", deleted |-> FALSE]
               /\ ~fr'.detectCalled
               /\ fr'.corners ]_vars

\* C11 witness: the third frame followed the corners by optical flow.
C11_Witness ==
    /\ fr.branch # "none" /\ fr.flowed
    /\ frameIndex > 2
    /\ markerTracking

\* C12: a frame whose optical flow fails for a corner point clears the
\* tracking flag and both buffers and calls detect() in the same frame; a
\* frame that starts in Detecting calls detect().
C12_FlowFailureClearsAndDetects ==
    [][ MarkerFrameStep =>
          /\ (fr'.flowTried /\ ~fr'.flowed) =>
               /\ ~fr'.afterFlow.tracking
               /\ IsNull(fr'.afterFlow.gray)
               /\ IsNull(fr'.afterFlow.pts)
               /\ fr'.detectCalled
          /\ Detecting => (~fr'.flowTried /\ fr'.detectCalled) ]_vars

\* C12 witness: the flow failed, detect() was called and found nothing.
C12_Witness ==
    /\ fr.branch # "none"
    /\ fr.flowTried /\ ~fr.flowed
    /\ fr.detectCalled /\ ~fr.detected
    /\ ~markerTracking

\* C13 as stated: after a frame whose optical flow failed on a point the
\* tracker is in Detecting at the start of the next frame.
C13_FlowFailureLeavesDetecting ==
    [][ (MarkerFrameStep /\ fr'.flowTried /\ ~fr'.flowed) => Detecting' ]_vars

\* C13 amended: after a frame whose optical flow failed on a point the
\* tracker is in Detecting at the start of the next frame unless detect()
\* found the marker in that same frame; then it is in Tracking, seeded
\* from that detection.
C13_FlowFailureThenDetect ==
    [][ (MarkerFrameStep /\ fr'.flowTried /\ ~fr'.flowed) =>
          IF fr'.detected
          THEN /\ Tracking'
               /\ markerPrevGray'.frame = frameIndex'
               /\ markerPrevPts'.frame = frameIndex'
               /\ markerPrevPts'.from = "detect"
          ELSE Detecting' ]_vars

\* C13 witness: the flow failed and detect() found the marker in the same
\* frame.
C13_Witness ==
    /\ fr.branch # "none"
    /\ fr.flowTried /\ ~fr.flowed
    /\ fr.detected
    /\ markerTracking

\* C14: between frames the marker tracker is in Detecting (flag false, no
\* buffers) or in Tracking (flag true, a live gray frame and a live Mat of
\* exactly four corner points).
C14_DetectingOrTracking == Detecting \/ Tracking

\* C14 witness: a tracked marker was lost and the state is cleared.
C14_Witness ==
    /\ fr.branch # "none"
    /\ fr.flowTried /\ ~fr.flowed
    /\ Detecting

\* The probe holds a call of detect and what it returned.
DetectCalled == probe.fn = "MarkerTracker" /\ probe.detects > 0

\* C15: detect returns corners only with at least 12 matches, a 3x3
\* homography and at least 12 inliers of the robust estimate, and nothing
\* otherwise; the corners are the template's top-left, top-right,
\* bottom-right and bottom-left corners mapped by the homography, in that
\* order.
C15_DetectGates ==
    DetectCalled =>
        LET in == probe.in
            t == probe.tracker
            passes == /\ ~IsNull(t.templateDescriptors)
                      /\ t.templateDescriptors.rows > 0
                      /\ in.frameKeypoints >= MinFrameKeypoints
                      /\ in.good >= 12
                      /\ ~IsNull(in.H) /\ in.H.rows = 3 /\ in.H.cols = 3
                      /\ in.inliers >= 12
        IN  /\ ~IsNull(probe.out) <=> passes
            /\ ~IsNull(probe.out) =>
                 /\ Len(probe.out.corners) = 4
                 /\ probe.out.corners[1] = perspectiveTransform(in.H.m, 0, 0)
                 /\ probe.out.corners[2] = perspectiveTransform(in.H.m, t.templateW, 0)
                 /\ probe.out.corners[3] =
                      perspectiveTransform(in.H.m, t.templateW, t.templateH)
                 /\ probe.out.corners[4] = perspectiveTransform(in.H.m, 0, t.templateH)

\* C16: loadTemplate rejects when the reference image cannot be decoded
\* and when the decoded reference yields too few keypoints; it never
\* resolves leaving a template without keypoints.
C16_LoadTemplateRejects ==
    (probe.fn = "MarkerTracker" /\ probe.loaded # "no") =>
        /\ ~probe.template.decoded => probe.loaded = "rejected"
        /\ probe.loaded = "resolved" =>
             /\ ~IsNull(probe.tracker.templateDescriptors)
             /\ probe.tracker.templateDescriptors.rows > 0

\* The probe holds a call of processFrame on a core that had its first
\* frame.
TrackedFrame ==
    /\ probe.fn = "processFrame" /\ probe.calls > 0
    /\ probe.before.initialized

\* The call re-seeded the features by detection on its frame and left the
\* pose and the cloud alone.
ReseededByDetection ==
    /\ ~probe.threw /\ ~probe.estimated
    /\ slam.prevGray = [frame |-> probe.calls]
    /\ slam.prevPoints.frame = probe.calls
    /\ slam.prevPoints.from = "detect"
    /\ slam.pose = probe.before.pose

InBounds(p) ==
    /\ (p.w >= WeightFloor \/ p.w <= -WeightFloor)
    /\ p.finite
    /\ \A c \in {p.x \div p.w, p.y \div p.w, p.z \div p.w} :
         c <= CoordLimit /\ c >= -CoordLimit

\* C18: after a processFrame call every point of the cloud has coordinates
\* of magnitude at most 100, and the cloud of a call that triangulated is
\* made of exactly the triangulated points with weight magnitude at least
\* 1e-8 and coordinate magnitudes at most 100, in their order.
C18_CloudWithinBounds ==
    (probe.fn = "processFrame" /\ probe.calls > 0) =>
        /\ \A i \in 1..Len(slam.mapPoints3D) :
             LET q == slam.mapPoints3D[i]
             IN  \A c \in {q.X, q.Y, q.Z} : c <= CoordLimit /\ c >= -CoordLimit
        /\ (~IsNull(probe.recovered) /\ probe.in.triangulate = "ok") =>
             LET kept == SelectSeq(probe.in.points4D, InBounds)
             IN  /\ Len(slam.mapPoints3D) = Len(kept)
                 /\ \A i \in 1..Len(kept) :
                      slam.mapPoints3D[i] = [X |-> kept[i].x \div kept[i].w,
                                             Y |-> kept[i].y \div kept[i].w,
                                             Z |-> kept[i].z \div kept[i].w]

\* C18 witness: a call triangulated, kept a point at the coordinate limit
\* and dropped others.
C18_Witness ==
    /\ probe.fn = "processFrame" /\ probe.calls > 0
    /\ ~IsNull(probe.recovered)
    /\ Len(slam.mapPoints3D) > 0
    /\ Len(slam.mapPoints3D) < Len(probe.in.points4D)
    /\ \E i \in 1..Len(slam.mapPoints3D) : slam.mapPoints3D[i].X = -CoordLimit

\* C19: when the solve of a frame fails (the essential matrix estimation
\* returns nothing or throws, or recoverPose throws) the cumulative pose
\* keeps its value, the cloud is cleared, and the previous-frame buffer and
\* the tracked points are those of the current frame.
C19_SolveFailureReseeds ==
    (TrackedFrame /\ probe.estimated /\ IsNull(probe.recovered)) =>
        /\ slam.pose = probe.before.pose
        /\ slam.mapPoints3D = << >>
        /\ slam.prevGray = [frame |-> probe.calls]
        /\ slam.prevPoints.frame = probe.calls

\* C20: every iteration of loop() that runs with `running` true schedules
\* the next iteration, whatever the frame brought.
C20_LoopAlwaysReschedules == [][(FrameStep /\ running) => loopDue']_vars

\* The iteration of loop() that ended in this state called fn.
Called(fn) == \E i \in 1..Len(fr.calls) : fr.calls[i] = fn

C22_NoFrameBeforeTemplateSettles ==
    startPc \in {"idle", "loadTemplate"} =>
        /\ frameIndex = 0
        /\ ~loopDue
        /\ ~running

\* C22 witness: the first iteration has run after the template was loaded.
C22_Witness ==
    /\ frameIndex = 1
    /\ startPc = "done"
    /\ markerTracker = "ready"
    /\ fr.detectCalled

\* C23: after a startup on which the MarkerTracker constructor threw or
\* loadTemplate rejected, the loop is running and due again after every
\* frame, no marker pose was produced and the anchor is hidden.
C23_RunsWithoutMarkerTracking ==
    (startPc = "done" /\ markerTracker # "ready") =>
        /\ running
        /\ loopDue
        /\ IsNull(lastStableMarkerPose)
        /\ ~anchor.visible
        /\ frameIndex > 0 => (~fr.corners /\ IsNull(fr.anchorArg))

\* The probe holds a call of estimatePose that returned a pose.
Solved ==
    /\ probe.fn = "pose" /\ probe.op = "estimatePose"
    /\ ~IsNull(probe.out)

\* a - b on triples.
Minus(a, b) == << a[1] - b[1], a[2] - b[2], a[3] - b[3] >>

\* 0.85 times prev plus 0.15 times raw, on triples.
Blend(prev, raw) ==
    [k \in 1..3 |-> (85 * prev[k] + 15 * raw[k]) \div 100]

\* C24: the first solved pose is returned as solved (translation with Y
\* flipped, the Euler angles of the matrix); on every later solve each of
\* x, y, z and yaw, pitch, roll of the smoothed pose is 0.85 times its
\* value in the previous smoothed pose plus 0.15 times its raw value.
C24_SmoothingRule ==
    Solved =>
        LET rawPosition == << probe.in.tvec[1], -probe.in.tvec[2], probe.in.tvec[3] >>
            prev == probe.before.lastPose
        IN  /\ rawPose.position = rawPosition
            /\ IF IsNull(prev)
               THEN /\ probe.out.position = rawPosition
                    /\ probe.out.rotation = rawPose.rotation
                    /\ lastPose.position = rawPosition
                    /\ lastPose.rotation = rawPose.rotation
               ELSE \A k \in 1..3 :
                      /\ lastPose.position[k] = Blend(prev.position, rawPosition)[k]
                      /\ lastPose.rotation[k] = Blend(prev.rotation, rawPose.rotation)[k]

\* C24 witness: a third solve blended a position and a yaw that differ
\* from the raw ones.
C24_Witness ==
    /\ Solved /\ probe.solves = 3
    /\ ~IsNull(probe.before.lastPose)
    /\ lastPose.position[1] # rawPose.position[1]
    /\ lastPose.rotation[1] # rawPose.rotation[1]
    /\ lastPose.position # probe.before.lastPose.position

\* C25: when a solve gives the raw pose the solve before it gave, every
\* component of the smoothed pose is no farther from the raw pose than it
\* was and its difference is 0.85 times the difference before; when every
\* solve since the module was loaded gave the same raw pose, the smoothed
\* pose and the pose returned are that raw pose.
C25_ConstantStreamConverges ==
    (Solved /\ ~IsNull(probe.before.rawPose)
            /\ probe.before.rawPose = rawPose) =>
        LET prev == probe.before.lastPose
        IN  /\ \A k \in 1..3 :
                 LET dp0 == prev.position[k] - rawPose.position[k]
                     dp1 == lastPose.position[k] - rawPose.position[k]
                     dr0 == prev.rotation[k] - rawPose.rotation[k]
                     dr1 == lastPose.rotation[k] - rawPose.rotation[k]
                 IN  /\ Abs(dp1) <= Abs(dp0) /\ dp1 = (85 * dp0) \div 100
                     /\ Abs(dr1) <= Abs(dr0) /\ dr1 = (85 * dr0) \div 100
            /\ probe.constant =>
                 /\ lastPose.position = rawPose.position
                 /\ lastPose.rotation = rawPose.rotation
                 /\ IsNull(worldOrigin) =>
                      /\ probe.out.position = rawPose.position
                      /\ probe.out.rotation = rawPose.rotation

\* C25 witness: the raw pose of the last two solves is the same and the
\* smoothed pose moved toward it without reaching it.
C25_Witness ==
    /\ Solved /\ probe.solves = 3
    /\ probe.before.rawPose = rawPose
    /\ ~probe.constant
    /\ lastPose.position # rawPose.position
    /\ lastPose.position # probe.before.lastPose.position

\* C26: setWorldOrigin leaves the smoothing base and the raw pose as they
\* were; after every call of either function both are those of a module
\* given the same solves and never an origin, and the base stored by a
\* solve is the pose returned with the origin added back.
C26_OriginLeavesSmoothing ==
    probe.fn = "pose" =>
        /\ probe.op = "setWorldOrigin" =>
             /\ lastPose = probe.before.lastPose
             /\ rawPose = probe.before.rawPose
        /\ lastPose = probe.twin.lastPose
        /\ rawPose = probe.twin.rawPose
        /\ (Solved /\ ~IsNull(worldOrigin)) =>
             /\ Minus(lastPose.position, worldOrigin.position) = probe.out.position
             /\ Minus(lastPose.rotation, worldOrigin.rotation) = probe.out.rotation

\* C26 witness: a solve after an origin away from zero was captured; the
\* pose returned is offset, the base is not.
C26_Witness ==
    /\ Solved /\ probe.solves = 3
    /\ ~IsNull(worldOrigin)
    /\ worldOrigin.position # << 0, 0, 0 >>
    /\ probe.out.position # lastPose.position
    /\ ~IsNull(probe.before.worldOrigin)
    /\ lastPose.position # rawPose.position

\* C27: setWorldOrigin without a solved pose changes nothing; otherwise the
\* origin it stores is the smoothed pose held at the call, and every pose
\* returned afterwards is the smoothed pose minus the smoothed pose held
\* at the capture, in position and in rotation.
C27_OriginIsSmoothedPose ==
    probe.fn = "pose" =>
        /\ (probe.op = "setWorldOrigin" /\ IsNull(probe.before.rawPose)) =>
             PoseModule = probe.before
        /\ (probe.op = "setWorldOrigin" /\ ~IsNull(probe.before.rawPose)) =>
             /\ worldOrigin.position = lastPose.position
             /\ worldOrigin.rotation = lastPose.rotation
        /\ (Solved /\ ~IsNull(probe.captured)) =>
             /\ probe.out.position = Minus(lastPose.position, probe.captured.position)
             /\ probe.out.rotation = Minus(lastPose.rotation, probe.captured.rotation)

C30_BaseIsLastAccepted ==
    (markerTracker # "null" /\ ~IsNull(lastPose)) =>
        /\ ~IsNull(lastStableMarkerPose)
        /\ lastPose.position = lastStableMarkerPose.position
        /\ lastPose.rotation = lastStableMarkerPose.rotation

\* C32: after every processFrame call the cloud holds only points
\* triangulated during that call: on a call without a motion estimate (the
\* first frame, a re-seed frame, a failed solve) it is empty, and after a
\* solve it is the cloud triangulated from that call's points4D.
C32_CloudOfThisCallOnly ==
    (probe.fn = "processFrame" /\ probe.calls > 0) =>
        /\ IsNull(probe.recovered) => slam.mapPoints3D = << >>
        /\ (~IsNull(probe.recovered) /\ probe.in.triangulate = "ok") =>
             slam.mapPoints3D = Triangulated(probe.in.points4D)

\* C33: the first processFrame call stores the detected features of its
\* frame as the reference set with the frame's gray image, estimates no
\* motion, leaves the cumulative pose at identity and zero and marks the
\* core initialized; every later call finds the core initialized and takes
\* the tracking path (it re-seeds or runs the solve).
C33_FirstCallInitializes ==
    (probe.fn = "processFrame" /\ probe.calls > 0) =>
        /\ slam.initialized
        /\ probe.calls = 1 =>
             /\ ~probe.before.initialized
             /\ slam.prevPoints =
                  [frame |-> 1, from |-> "detect", rows |-> probe.in.detected]
             /\ slam.prevGray = [frame |-> 1]
             /\ ~probe.estimated /\ IsNull(probe.recovered) /\ ~probe.threw
             /\ slam.pose = [R |-> Identity3, t |-> << 0, 0, 0 >>]
             /\ slam.mapPoints3D = << >>
        /\ probe.calls > 1 =>
             /\ probe.before.initialized
             /\ probe.estimated \/ ReseededByDetection

\* C33 witness: a second call ran the solve from the features the first
\* call stored.
C33_Witness ==
    /\ probe.fn = "processFrame" /\ probe.calls = 2
    /\ probe.before.prevPoints =
         [frame |-> 1, from |-> "detect", rows |-> SlamMaxCorners]
    /\ probe.before.pose = [R |-> Identity3, t |-> << 0, 0, 0 >>]
    /\ ~IsNull(probe.recovered)

C39_FirstSolveAccepted ==
    [][ (FrameStep /\ markerTracker # "null" /\ fr'.corners
                   /\ ~IsNull(fr'.pose)) =>
          /\ IsNull(lastPose) =>
                /\ IsNull(lastStableMarkerPose)
                /\ fr'.branch = "accepted"
                /\ lastStableMarkerPose' = fr'.pose
          /\ fr'.branch # "accepted" =>
                /\ ~IsNull(lastPose)
                /\ ~IsNull(lastStableMarkerPose)
      ]_vars

\* C39 witness: the first frame solved a pose 3 m from the camera axis and
\* it was accepted.
C39_Witness ==
    /\ frameIndex = 1
    /\ fr.branch = "accepted"
    /\ lastStableMarkerPose.position = << 1800, 2400, 0 >>
    /\ lastPose.position = << 1800, 2400, 0 >>

\* The raw positions solvePnP can give, in the pose module's convention.
RawPositions == { normalizeTranslation(p.tvec) : p \in PnPSolutions }

\* The last frame solved the raw position c and the jump check rejected the
\* smoothed pose: the anchor was set to the last accepted pose.
JumpRejected(c) ==
    /\ fr.branch = "held" /\ ~IsNull(fr.pose)
    /\ rawPose.position = c

\* The last frame found the marker and solved the raw position c.
SteadyAt(c) ==
    /\ fr.branch # "none" /\ fr.corners /\ ~IsNull(fr.pose)
    /\ rawPose.position = c

\* C31: after a jump rejection, if the marker is found on every following
\* frame with the same raw PnP pose, a pose is eventually accepted again.
C31_AcceptedAgain ==
    \A c \in RawPositions :
        JumpRejected(c) ~> (~SteadyAt(c) \/ fr.branch = "accepted")

\* The intrinsics held are those of the video's size: fx = fy = width,
\* cx = width / 2, cy = height / 2, no distortion.
IntrinsicsOfVideo ==
    /\ probe.video \in VideoSizes
    /\ ~IsNull(probe.intrinsics)
    /\ probe.intrinsics.cameraMatrix =
         << probe.video[1], 0, probe.video[1] \div 2,
            0, probe.video[1], probe.video[2] \div 2,
            0, 0, 1 >>
    /\ probe.intrinsics.distCoeffs = << 0, 0, 0, 0 >>

\* C35: in the application, whatever the order of the clicks, the
\* loadedmetadata events and the settling of initOpenCV, initPose has been
\* called before the frame loop runs, and when the loop first calls
\* estimatePose the intrinsics are fx = fy = video width, cx = width / 2,
\* cy = height / 2 with zero distortion, or else estimatePose returns no
\* pose.
C35_IntrinsicsBeforeSolve ==
    (probe.fn = "start" /\ probe.app = "script" /\ probe.loops > 0) =>
        /\ probe.posed
        /\ cameraMatrix => IntrinsicsOfVideo
        /\ probe.solved => (IF cameraMatrix THEN ~IsNull(probe.out)
                                            ELSE IsNull(probe.out))

\* C35 witness: the loop solved a pose after a startup that was repeated,
\* the metadata of a 1280 x 720 stream arriving with OpenCV already there.
C35_Witness ==
    /\ probe.fn = "start" /\ probe.app = "script"
    /\ Len(probe.pc) > 1
    /\ probe.solved /\ ~IsNull(probe.out)
    /\ probe.intrinsics.cameraMatrix[1] = 1280

\* Handlers of Start clicks standing at an await.
InFlight(p) ==
    { h \in 1..Len(p.pc) : p.pc[h] \notin {"returned", "failed", "done"} }

\* C36: in the application at most one frame-loop chain is active and at
\* most one click handler is under way, however often Start is clicked;
\* loop() is called from the handler only when no chain runs, and a startup
\* that fails leaves running false, no chain, and the button enabled and
\* shown.
C36_OneLoopChain ==
    [][ (probe.fn = "start" /\ probe.app = "script") =>
          /\ probe'.loops <= 1
          /\ Cardinality(InFlight(probe')) <= 1
          /\ probe'.loops > probe.loops => (probe.loops = 0 /\ ~running)
          /\ \A h \in 1..Len(probe.pc) :
               (probe'.pc[h] = "failed" /\ probe.pc[h] # "failed") =>
                  /\ ~running' /\ probe'.loops = 0
                  /\ ~probe'.disabled /\ ~probe'.hidden
      ]_vars

\* C36 witness: two startups failed and the third click started the loop.
C36_Witness ==
    /\ probe.fn = "start" /\ probe.app = "script"
    /\ Len(probe.pc) = MaxClicks
    /\ \E h \in 1..Len(probe.pc) : probe.pc[h] = "failed"
    /\ running /\ probe.loops = 1

\* C37: in the earlier bootstrap a second Start click during the first
\* click's startup starts no second frame loop and constructs no second
\* SlamCore.
C37_GuardPreventsDoubleStart ==
    (probe.fn = "start" /\ probe.app = "bootstrap") =>
        /\ probe.loops <= 1
        /\ probe.cores <= 1

\* C34: every native object a processFrame call constructs and does not
\* keep in a field of the core is released before the call ends, and a
\* retained object is released when the call replaces it.
C34_NativeObjectsReleased ==
    (probe.fn = "processFrame" /\ probe.calls > 0) =>
        /\ (probe.native.made \ probe.native.kept) \subseteq probe.native.freed
        /\ probe.native.dropped \subseteq probe.native.freed
=============================================================================
